---------------------------- MODULE Spec2Model ----------------------------
(***************************************************************************)
(* State-machine model of the screenshot-plus-ocr browser extension:       *)
(*   - AreaCapture, the region selector (module and inlined variant),      *)
(*   - ImageCropper.cropImage and its validation,                          *)
(*   - the capture pipeline: ScreenshotCapture (popup),                    *)
(*     ContentScriptController (page) and the background listener.         *)
(* Three specifications share the variables; each leaves the parts it      *)
(* does not exercise in their initial value.                               *)
(*   Spec         the AreaCapture object driven by a client                *)
(*   SpecCrop     ImageCropper.cropImage on enumerated inputs              *)
(*   SpecCapture  the popup / page / background capture pipeline           *)
(***************************************************************************)
EXTENDS Integers, Sequences, FiniteSets

VARIABLES
    variant,    \* which AreaCapture class: "module" or "inline"
    ac,         \* the fields of the AreaCapture object
    dom,        \* the page: overlay nodes, listeners, body style, error boxes
    log,        \* observer: start() calls made, callbacks invoked so far
    path,       \* observer: the pointer path delivered to the handlers
    crop,       \* one cropImage call: arguments, position, result
    cap,        \* the capture pipeline (popup, page controller, channels)
    bg,         \* the background worker: requests and their responses
    store,      \* StorageManager over chrome.storage.local, and the clock
    ui,         \* UIManager: cached elements, result element, event bus
    batch,      \* one batchCrop call: arguments, position, result
    twin        \* a second AreaCapture, the class in content.js, on a page
                \* of its own: its fields, document and observer

vars == <<variant, ac, dom, log, path, crop, cap, bg, store, ui, batch, twin>>

(***************************** bounds **************************************)
\* start() calls a client makes in one run (each has its own callbacks)
MaxStarts == 3
\* transient error boxes that may be on the page at once
MaxErrorDivs == 1
\* largest image side and largest rectangle coordinate tried by cropImage
MaxDim == 2
\* captureArea() calls the popup makes in one run
MaxCaptures == 2
\* requests the background worker receives in one run
MaxRequests == 3
\* times the clock advances in one run of the StorageManager
MaxTicks == 4
MaxFullPage == 1
MaxPopupCaptures == 1
MaxRegistrations == 2
MaxBatch == 2

(************************* program constants *******************************)
\* a selection narrower or lower than this is rejected
MinSelectionSize == 10

Min(a, b) == IF a < b THEN a ELSE b
Abs(a) == IF a < 0 THEN -a ELSE a

(************************* value domains ***********************************)
\* Pointer positions (clientX, clientY) the events carry.  A drag that
\* leaves the window reports coordinates outside the viewport (negative).
Points ==
    { <<50, 100>>, <<200, 300>>, <<59, 100>>, <<60, 110>>, <<-5, 300>> }

Keys == {"Escape", "Enter"}

Variants == {"module", "inline"}

\* inline value of document.body.style.overflow before the session
PageOverflows == {"", "scroll"}
\* scroll offsets of the page
ScrollPositions == {0, 120}

NoCb == 0
Tokens == 1..MaxStarts

NoArea == [x |-> 0, y |-> 0, width |-> 0, height |-> 0]
NoBox == [present |-> FALSE, display |-> "none",
          left |-> 0, top |-> 0, width |-> 0, height |-> 0]
NoScrollPosition == [saved |-> FALSE, pos |-> 0]
NoCall == [kind |-> "none", token |-> NoCb, area |-> NoArea]
NoPath == [open |-> FALSE, down |-> <<0, 0>>, cur |-> <<0, 0>>]

(***************************************************************************)
(* AreaCapture.  Every method is an operator on a "world" w:               *)
(*   w.ac   the object's fields       w.dom  the document                  *)
(*   w.exc  the exception thrown ("none" when the method returned)         *)
(*   w.call the callback the method ends by calling (its last statement)   *)
(* v is the variant of the class.                                          *)
(***************************************************************************)
DefaultAC ==
    [isActive |-> FALSE, isDrawing |-> FALSE,
     overlay |-> FALSE, selectionBox |-> NoBox,
     startX |-> 0, startY |-> 0, endX |-> 0, endY |-> 0,
     onCompleteCallback |-> NoCb, onCancelCallback |-> NoCb,
     originalScrollPosition |-> NoScrollPosition, preventScroll |-> FALSE]

SessionListeners == {"mousedown", "mousemove", "mouseup", "keydown"}
ScrollListeners == {"wheel", "touchmove"}

createOverlay(w, v) ==
    LET made == [w EXCEPT !.ac.overlay = TRUE,
                          !.ac.selectionBox = [NoBox EXCEPT !.present = TRUE],
                          !.dom.overlayNodes = @ + 1]
    IN  IF v = "module"
        THEN [made EXCEPT !.dom.bodyOverflow = "hidden"]
        ELSE [made EXCEPT
                !.ac.originalScrollPosition =
                    [saved |-> TRUE, pos |-> w.dom.scroll],
                !.ac.preventScroll = TRUE,
                !.dom.listeners = @ \cup ScrollListeners]

removeOverlay(w, v) ==
    LET gone == IF w.ac.overlay
                THEN [w EXCEPT !.dom.overlayNodes = @ - 1,
                               !.ac.overlay = FALSE]
                ELSE w
        nobox == [gone EXCEPT !.ac.selectionBox = NoBox]
    IN  IF v = "module"
        THEN [nobox EXCEPT !.dom.bodyOverflow = ""]
        ELSE LET unblocked ==
                    IF nobox.ac.preventScroll
                    THEN [nobox EXCEPT
                            !.dom.listeners = @ \ ScrollListeners,
                            !.ac.preventScroll = FALSE]
                    ELSE nobox
             IN  IF unblocked.ac.originalScrollPosition.saved
                 THEN [unblocked EXCEPT
                         !.dom.scroll =
                             unblocked.ac.originalScrollPosition.pos,
                         !.ac.originalScrollPosition = NoScrollPosition]
                 ELSE unblocked

attachEventListeners(w) ==
    [w EXCEPT !.dom.listeners = @ \cup SessionListeners]

\* variant of detachEventListeners that forgets the keydown listener
detachEventListeners_keepKeydown(w) ==
    LET off == IF w.ac.overlay
               THEN [w EXCEPT !.dom.listeners = @ \ {"mousedown"}]
               ELSE w
    IN  [off EXCEPT !.dom.listeners = @ \ {"mousemove", "mouseup"}]

detachEventListeners(w) ==
    LET off == IF w.ac.overlay
               THEN [w EXCEPT !.dom.listeners = @ \ {"mousedown"}]
               ELSE w
    IN  [off EXCEPT !.dom.listeners = @ \ {"mousemove", "mouseup", "keydown"}]

\* a reset() that leaves the callbacks of the ended session in place
reset_keepCallbacks(w) ==
    [w EXCEPT !.ac.isActive = FALSE, !.ac.isDrawing = FALSE,
              !.ac.startX = 0, !.ac.startY = 0,
              !.ac.endX = 0, !.ac.endY = 0]

reset(w) ==
    [w EXCEPT !.ac.isActive = FALSE, !.ac.isDrawing = FALSE,
              !.ac.startX = 0, !.ac.startY = 0,
              !.ac.endX = 0, !.ac.endY = 0,
              !.ac.onCompleteCallback = NoCb,
              !.ac.onCancelCallback = NoCb]

\* variant of start without the re-entrancy guard: it replaces the session
start_replace(w, v, onComplete, onCancel) ==
    attachEventListeners(
        createOverlay(
            [w EXCEPT !.ac.onCompleteCallback = onComplete,
                      !.ac.onCancelCallback = onCancel,
                      !.ac.isActive = TRUE], v))

start(w, v, onComplete, onCancel) ==
    IF w.ac.isActive
    THEN [w EXCEPT !.exc = "AlreadyActive"]
    ELSE attachEventListeners(
            createOverlay(
                [w EXCEPT !.ac.onCompleteCallback = onComplete,
                          !.ac.onCancelCallback = onCancel,
                          !.ac.isActive = TRUE], v))

\* a stop() without the isActive guard
stop_unguarded(w, v) == reset(removeOverlay(detachEventListeners(w), v))

stop(w, v) ==
    IF ~w.ac.isActive
    THEN w
    ELSE reset(removeOverlay(detachEventListeners(w), v))

\* variant of cancel that reads the callback after stop() has reset it
cancel_readAfterStop(w, v) ==
    LET stopped == stop(w, v)
        callback == stopped.ac.onCancelCallback
    IN  IF callback # NoCb
        THEN [stopped EXCEPT
                !.call = [kind |-> "cancel", token |-> callback,
                          area |-> NoArea]]
        ELSE stopped

\* variant of cancel that never calls back
cancel_silent(w, v) == stop(w, v)

cancel(w, v) ==
    LET callback == w.ac.onCancelCallback
        stopped == stop(w, v)
    IN  IF callback # NoCb
        THEN [stopped EXCEPT
                !.call = [kind |-> "cancel", token |-> callback,
                          area |-> NoArea]]
        ELSE stopped

updateSelectionBox(w) ==
    IF ~w.ac.selectionBox.present
    THEN w
    ELSE [w EXCEPT
            !.ac.selectionBox.left = Min(w.ac.startX, w.ac.endX),
            !.ac.selectionBox.top = Min(w.ac.startY, w.ac.endY),
            !.ac.selectionBox.width = Abs(w.ac.endX - w.ac.startX),
            !.ac.selectionBox.height = Abs(w.ac.endY - w.ac.startY)]

\* variant of getSelectedArea that takes the anchor as the top-left corner
getSelectedArea_anchor(a) ==
    [x |-> a.startX,
     y |-> a.startY,
     width |-> Abs(a.endX - a.startX),
     height |-> Abs(a.endY - a.startY)]

getSelectedArea(a) ==
    [x |-> Min(a.startX, a.endX),
     y |-> Min(a.startY, a.endY),
     width |-> Abs(a.endX - a.startX),
     height |-> Abs(a.endY - a.startY)]

\* variant of completeSelection that calls back before it stops
completeSelection_callbackFirst(w, v, area) ==
    LET callback == w.ac.onCompleteCallback
    IN  IF callback # NoCb
        THEN [w EXCEPT
                !.call = [kind |-> "complete", token |-> callback,
                          area |-> area]]
        ELSE stop(w, v)

completeSelection(w, v, area) ==
    LET callback == w.ac.onCompleteCallback
        stopped == stop(w, v)
    IN  IF callback # NoCb
        THEN [stopped EXCEPT
                !.call = [kind |-> "complete", token |-> callback,
                          area |-> area]]
        ELSE stopped

\* the error box is appended to the body; its 3 s timer removes it
showError(w) ==
    [w EXCEPT !.dom.errorDivs = @ + 1]

handleMouseDown(w, p) ==
    IF ~w.ac.isActive
    THEN w
    ELSE LET pressed == [w EXCEPT !.ac.isDrawing = TRUE,
                                  !.ac.startX = p[1], !.ac.startY = p[2],
                                  !.ac.endX = p[1], !.ac.endY = p[2]]
         IN  [updateSelectionBox(pressed) EXCEPT
                !.ac.selectionBox.display = "block"]

\* a handleMouseMove that follows the pointer whether or not a drag is on
handleMouseMove_notDrawing(w, p) ==
    IF ~w.ac.isActive
    THEN w
    ELSE updateSelectionBox([w EXCEPT !.ac.endX = p[1], !.ac.endY = p[2]])

handleMouseMove(w, p) ==
    IF ~w.ac.isActive \/ ~w.ac.isDrawing
    THEN w
    ELSE updateSelectionBox([w EXCEPT !.ac.endX = p[1], !.ac.endY = p[2]])

\* variant of handleMouseUp without the minimum-size check
handleMouseUp_anySize(w, v) ==
    IF ~w.ac.isActive \/ ~w.ac.isDrawing
    THEN w
    ELSE LET released == [w EXCEPT !.ac.isDrawing = FALSE]
         IN  completeSelection(released, v, getSelectedArea(released.ac))

\* a handleMouseUp whose copy in content.js lacks the minimum-size check
handleMouseUp_inlineAnySize(w, v) ==
    IF ~w.ac.isActive \/ ~w.ac.isDrawing
    THEN w
    ELSE LET released == [w EXCEPT !.ac.isDrawing = FALSE]
             area == getSelectedArea(released.ac)
         IN  IF /\ v = "module"
                /\ \/ area.width < MinSelectionSize
                   \/ area.height < MinSelectionSize
             THEN [showError(released) EXCEPT
                     !.ac.selectionBox.display = "none"]
             ELSE completeSelection(released, v, area)

handleMouseUp(w, v) ==
    IF ~w.ac.isActive \/ ~w.ac.isDrawing
    THEN w
    ELSE LET released == [w EXCEPT !.ac.isDrawing = FALSE]
             area == getSelectedArea(released.ac)
         IN  IF area.width < MinSelectionSize
                \/ area.height < MinSelectionSize
             THEN [showError(released) EXCEPT
                     !.ac.selectionBox.display = "none"]
             ELSE completeSelection(released, v, area)

handleKeyDown(w, v, key) ==
    IF ~w.ac.isActive
    THEN w
    ELSE IF key = "Escape" THEN cancel(w, v) ELSE w

(***************************************************************************)
(* ImageCropper.  Values as JavaScript sees them: a property of the area   *)
(* object is absent, a non-number (a string), NaN, or an integer.          *)
(***************************************************************************)
Absent == [t |-> "absent", n |-> 0]
NotNumber == [t |-> "string", n |-> 0]
NaN == [t |-> "nan", n |-> 0]
Num(i) == [t |-> "num", n |-> i]

PropValues == {Absent, NotNumber, NaN} \cup {Num(i) : i \in -1..MaxDim}

\* the area argument: null, a non-object (a string), or an object
NullArea == [type |-> "null", x |-> Absent, y |-> Absent,
             width |-> Absent, height |-> Absent]
StringArea == [NullArea EXCEPT !.type = "string"]
ObjectAreas == [type : {"object"}, x : PropValues, y : PropValues,
                width : PropValues, height : PropValues]
AreaArgs == {NullArea, StringArea} \cup ObjectAreas

\* the rectangle AreaCapture reports, as an area argument
AreaOf(r) == [type |-> "object", x |-> Num(r.x), y |-> Num(r.y),
              width |-> Num(r.width), height |-> Num(r.height)]

\* The image argument: no data URL (null, undefined or ""), a data URL that
\* does not decode, or a PNG of width x height pixels.  A PNG is known by
\* the window of its source frame that it shows: pixel (i, j) of the image
\* is pixel (ox + i, oy + j) of the frame; a blank canvas shows none.
NoImage == [kind |-> "missing", width |-> 0, height |-> 0,
            ox |-> 0, oy |-> 0, drawn |-> FALSE]
BadImage == [NoImage EXCEPT !.kind = "undecodable"]
Png(w, h) == [kind |-> "png", width |-> w, height |-> h,
              ox |-> 0, oy |-> 0, drawn |-> TRUE]
Pixel(img, i, j) ==
    IF img.drawn THEN <<img.ox + i, img.oy + j>> ELSE <<-1, -1>>
ImageArgs == {NoImage, BadImage, Png(MaxDim, MaxDim), Png(MaxDim, 1)}

\* JavaScript comparisons: any comparison with NaN is false
JsLess(a, i) == a.t = "num" /\ a.n < i
JsLeq(a, i) == a.t = "num" /\ a.n <= i
JsGreater(a, i) == a.t = "num" /\ a.n > i
JsGeq(a, i) == a.t = "num" /\ a.n >= i
\* a + b > limit, false when either is NaN
JsSumExceeds(a, b, limit) ==
    a.t = "num" /\ b.t = "num" /\ a.n + b.n > limit
\* canvas.width = v: NaN and negative values give 0
CanvasSize(a) == IF a.t = "num" /\ a.n > 0 THEN a.n ELSE 0

IsNumberProp(a) == a.t \in {"nan", "num"}

\* variant of isValidArea that forgets the sign of x and y
isValidArea_noSign(area, v) ==
    /\ \A prop \in {area.x, area.y, area.width, area.height} :
            IsNumberProp(prop)
    /\ ~(JsLeq(area.width, 0) \/ JsLeq(area.height, 0))

isValidArea(area, v) ==
    /\ \A prop \in {area.x, area.y, area.width, area.height} :
            IsNumberProp(prop)
    /\ IF v = "module"
       THEN /\ ~(JsLeq(area.width, 0) \/ JsLeq(area.height, 0))
            /\ ~(JsLess(area.x, 0) \/ JsLess(area.y, 0))
       ELSE /\ JsGreater(area.width, 0) /\ JsGreater(area.height, 0)
            /\ JsGeq(area.x, 0) /\ JsGeq(area.y, 0)

Ok(image) == [kind |-> "ok", error |-> "", image |-> image]
Err(message) == [kind |-> "error", error |-> message, image |-> NoImage]
NoResult == [kind |-> "none", error |-> "", image |-> NoImage]
\* what the catch in cropImage rethrows
Wrapped(r) ==
    IF r.kind = "error"
    THEN Err("Image cropping failed: " \o r.error)
    ELSE r

\* a cropImage that looks at the area only after the image has loaded
validateArguments_imageOnly(image, area, v) ==
    IF image.kind = "missing" THEN "Image data URL is required" ELSE "ok"

\* the checks cropImage makes before it starts to decode
validateArguments(image, area, v) ==
    IF image.kind = "missing" THEN "Image data URL is required"
    ELSE IF area.type # "object" THEN "Area object is required"
    ELSE IF ~isValidArea(area, v) THEN "Invalid area dimensions"
    ELSE "ok"

\* a crop that cuts the rectangle down to the image instead of refusing it
performCrop_clamp(img, area) ==
    LET drawn == \A a \in {area.x, area.y, area.width, area.height} :
                       a.t = "num"
        cw == IF drawn THEN Min(area.width.n, img.width - area.x.n)
              ELSE CanvasSize(area.width)
        ch == IF drawn THEN Min(area.height.n, img.height - area.y.n)
              ELSE CanvasSize(area.height)
    IN  Ok([kind |-> "png",
            width |-> IF cw > 0 THEN cw ELSE 0,
            height |-> IF ch > 0 THEN ch ELSE 0,
            ox |-> IF drawn THEN img.ox + area.x.n ELSE 0,
            oy |-> IF drawn THEN img.oy + area.y.n ELSE 0,
            drawn |-> drawn /\ img.drawn])

\* drawImage with a NaN argument draws nothing: the canvas stays blank;
\* toDataURL of a canvas without pixels is "data:,", which is no image
performCrop(img, area) ==
    IF \/ JsSumExceeds(area.x, area.width, img.width)
       \/ JsSumExceeds(area.y, area.height, img.height)
    THEN Err("Crop area extends beyond image boundaries")
    ELSE LET drawn == \A a \in {area.x, area.y, area.width, area.height} :
                            a.t = "num"
         IN  IF CanvasSize(area.width) = 0 \/ CanvasSize(area.height) = 0
             THEN Ok(BadImage)
             ELSE Ok([kind |-> "png",
                      width |-> CanvasSize(area.width),
                      height |-> CanvasSize(area.height),
                      ox |-> IF drawn THEN img.ox + area.x.n ELSE 0,
                      oy |-> IF drawn THEN img.oy + area.y.n ELSE 0,
                      drawn |-> drawn /\ img.drawn])

\* what getImageDimensions() settles with
NoDimensions == [kind |-> "none", error |-> "", width |-> 0, height |-> 0]
\* getImageDimensions(imageDataUrl), its loadImage ending with outcome
getImageDimensions(image, outcome) ==
    IF image.kind # "png"
    THEN [NoDimensions EXCEPT !.kind = "error",
            !.error = "Failed to get image dimensions: Failed to load image"]
    ELSE IF outcome = "timeout"
    THEN [NoDimensions EXCEPT !.kind = "error",
            !.error = "Failed to get image dimensions: Image loading timed out"]
    ELSE [NoDimensions EXCEPT !.kind = "ok", !.width = image.width,
                              !.height = image.height]

\* a + b <= limit, false when either is NaN
JsSumWithin(a, b, limit) ==
    a.t = "num" /\ b.t = "num" /\ a.n + b.n <= limit

\* validateCropArea(imageDataUrl, area) of the module, its loadImage ending
\* with outcome; `prop in area` throws for an area that is no object, and
\* the catch turns every throw and every rejection into false
validateCropArea(image, area, outcome) ==
    IF area.type # "object" THEN FALSE
    ELSE IF ~isValidArea(area, "module") THEN FALSE
    ELSE LET dimensions == getImageDimensions(image, outcome)
         IN  IF dimensions.kind # "ok" THEN FALSE
             ELSE /\ JsGeq(area.x, 0)
                  /\ JsGeq(area.y, 0)
                  /\ JsSumWithin(area.x, area.width, dimensions.width)
                  /\ JsSumWithin(area.y, area.height, dimensions.height)

(***************************************************************************)
(* The capture pipeline: the popup's ScreenshotCapture, the page's         *)
(* ContentScriptController, the background worker and chrome.storage.      *)
(* Every captureArea() call k has a promise and a position in the chain    *)
(* of chrome callbacks that the call started.                              *)
(***************************************************************************)
Captures == 1..MaxCaptures
NoCapture == 0

NoPromise == [state |-> "none", error |-> "", image |-> NoImage]
Pending == [NoPromise EXCEPT !.state = "pending"]
Resolved(image) == [state |-> "resolved", error |-> "", image |-> image]
Rejected(message) ==
    [state |-> "rejected", error |-> message, image |-> NoImage]

\* resolve() and reject() of a promise: only the first settlement counts
Settle(c, k, outcome) ==
    IF c.promise[k].state = "pending"
    THEN [c EXCEPT !.promise[k] = outcome]
    ELSE c

\* the tab's viewport as captureVisibleTab returns it: at device pixel
\* ratio 1, and at ratio 1/2 (page zoomed out)
Frames == {Png(320, 400), Png(160, 200)}
\* pointer positions the user visits on the page
PagePoints == { <<50, 100>>, <<200, 300>>, <<-5, 300>> }

IdlePage == [loaded |-> FALSE, controllers |-> 0, isCapturing |-> FALSE,
             hasArea |-> FALSE, currentArea |-> NoArea,
             pc |-> "idle", reply |-> NoResult, cropped |-> NoImage,
             notification |-> "none", noteType |-> "none",
             owner |-> NoCapture,
             trace |-> <<>>]
EmptyStorage == [latestScreenshot |-> NoImage, hasArea |-> FALSE,
                 screenshotArea |-> NoArea]

\* handleFullPageCapture() of the popup: where it stands, the request it
\* sent, the captureFullPage() promise and the image it kept.
\* cause remembers which failure hit it, wrote the sinks it has written.
IdleFull == [calls |-> 0, pc |-> "idle", request |-> 0,
             promise |-> NoPromise, cause |-> "none", wrote |-> {},
             currentScreenshot |-> NoImage]

IdleCap == [calls |-> 0,
            popup |-> [isCapturing |-> FALSE, currentCallback |-> NoCapture],
            promise |-> [k \in Captures |-> NoPromise],
            stage |-> [k \in Captures |-> "none"],
            overlapped |-> {},
            cancelled |-> {},
            failed |-> {},
            cause |-> [k \in Captures |-> "none"],
            produced |-> [k \in Captures |-> NoImage],
            full |-> IdleFull,
            page |-> IdlePage,
            changes |-> <<>>,
            storage |-> EmptyStorage,
            clipboard |-> NoImage]

\* ScreenshotCapture.captureArea(), up to the tabs.query request.
\* overlapped remembers the calls made while an earlier promise was pending.
captureArea(c, k) ==
    LET p == [c EXCEPT !.calls = k, !.promise[k] = Pending,
                       !.overlapped =
                           IF \E j \in 1..(k - 1) :
                                  c.promise[j].state = "pending"
                           THEN @ \cup {k} ELSE @]
    IN  IF p.popup.isCapturing
        THEN [Settle(p, k, Rejected("Already capturing"))
                 EXCEPT !.stage[k] = "done"]
        ELSE [p EXCEPT !.popup.currentCallback = k, !.stage[k] = "query"]

\* cause remembers which failure hit call k
Blame(c, k, cause) == [c EXCEPT !.cause[k] = cause]

\* the tabs.query callback of captureArea()
onTabsQueried(c, k, found) ==
    IF ~found
    THEN [Settle(Blame(c, k, "noTab"), k, Rejected("No active tab"))
             EXCEPT !.stage[k] = "done"]
    ELSE [c EXCEPT !.stage[k] = "inject"]

\* a content.js without the screenshotOCRLoaded guard
injectContentScript_unguarded(c) ==
    [c EXCEPT !.page.loaded = TRUE, !.page.controllers = @ + 1]

\* content.js run in the page: unless window.screenshotOCRLoaded is set it
\* sets it, builds a controller and adds its onMessage listener
injectContentScript(c) ==
    IF c.page.loaded
    THEN c
    ELSE [c EXCEPT !.page.loaded = TRUE, !.page.controllers = @ + 1]

\* the executeScript callback of captureArea(): whether or not content.js
\* could be run in the tab, it sends startCapture
onScriptInjected(c, k, injected) ==
    LET d == IF injected THEN injectContentScript(c) ELSE c
    IN  [d EXCEPT !.stage[k] = "startSent"]

\* the sendMessage callback of captureArea()
onStartResponse(c, k) ==
    LET d == [c EXCEPT !.stage[k] = "done"]
    IN  CASE c.stage[k] = "startUnreachable" ->
                 Settle(Blame(d, k, "transport"), k, Rejected("Cannot start area capture on this page. Try refreshing the page."))
          [] c.stage[k] = "startOk" -> [d EXCEPT !.popup.isCapturing = TRUE]
          [] OTHER -> Settle(Blame(d, k, "startRefused"), k,
                             Rejected("Failed to start area capture"))

handleAreaCaptureComplete(c, imageData) ==
    LET d == [c EXCEPT !.popup.isCapturing = FALSE]
    IN  IF d.popup.currentCallback # NoCapture
        THEN [Settle(d, d.popup.currentCallback, Resolved(imageData))
                 EXCEPT !.popup.currentCallback = NoCapture]
        ELSE d

cancelCapture(c) ==
    LET d == [c EXCEPT !.popup.isCapturing = FALSE]
    IN  IF d.popup.currentCallback # NoCapture
        THEN [Settle(d, d.popup.currentCallback, Rejected("Capture cancelled"))
                 EXCEPT !.popup.currentCallback = NoCapture]
        ELSE d

\* the chrome.storage.onChanged listener of the popup
setupStorageListener(c, change) ==
    IF change.newValue.kind # "missing" /\ c.popup.isCapturing
    THEN handleAreaCaptureComplete(c, change.newValue)
    ELSE c

\* ContentScriptController.cleanup()
cleanup(w, v) ==
    LET u == [w EXCEPT !.cap.page.isCapturing = FALSE,
                       !.cap.page.hasArea = FALSE,
                       !.cap.page.currentArea = NoArea]
    IN  IF u.ac.isActive THEN stop(u, v) ELSE u

\* ContentScriptController.startAreaCapture() answering the startCapture
\* message of call k; owner remembers whose selection the page is running
startAreaCapture(w, v, k) ==
    IF w.cap.page.isCapturing
    THEN [w EXCEPT !.cap.stage[k] = "startRefused"]
    ELSE LET u == start([w EXCEPT !.cap.page.isCapturing = TRUE], v, 1, 1)
         IN  IF u.exc # "none"
             THEN [u EXCEPT !.exc = "none",
                            !.cap.page.isCapturing = FALSE,
                            !.cap.stage[k] = "startRefused"]
             ELSE [u EXCEPT !.cap.stage[k] = "startOk",
                            !.cap.page.owner = k]

\* chrome.runtime.onMessage of the page: no listener, no answer
handleMessage(w, v, k) ==
    IF ~w.cap.page.loaded
    THEN [w EXCEPT !.cap.stage[k] = "startUnreachable"]
    ELSE startAreaCapture(w, v, k)

\* a handleAreaSelected that gives up isCapturing before it processes
handleAreaSelected_releaseFirst(w, area) ==
    [w EXCEPT !.cap.page.currentArea = area, !.cap.page.hasArea = TRUE,
              !.cap.page.isCapturing = FALSE,
              !.cap.page.pc = "awaitCapture",
              !.cap.page.trace = Append(@, "frameRequest")]

\* handleAreaSelected(area) up to its first await: captureScreenshot().
\* trace lists what the running operation has asked for so far.
handleAreaSelected(w, area) ==
    [w EXCEPT !.cap.page.currentArea = area, !.cap.page.hasArea = TRUE,
              !.cap.page.pc = "awaitCapture",
              !.cap.page.trace = Append(@, "frameRequest")]

\* handleAreaCancelled(); cancelled remembers whose selection was given up
handleAreaCancelled(w, v) ==
    cleanup([w EXCEPT !.cap.cancelled = @ \cup {w.cap.page.owner}], v)

\* showNotification(message, type = 'success', duration): the type each
\* call of handleAreaSelected ends up with; the call in its catch passes
\* the message alone
showNotification(note) ==
    IF note = "captureError" THEN "error" ELSE "success"

\* an end of handleAreaSelected that shows the notification and stops there
finishAreaSelected_noCleanup(w, v, note) ==
    [w EXCEPT !.cap.page.notification = note,
              !.cap.page.pc = "idle",
              !.cap.page.reply = NoResult,
              !.cap.page.cropped = NoImage,
              !.cap.page.trace = <<>>]

\* the end of handleAreaSelected: one notification, then cleanup();
\* failed remembers whose operation ended with an error notification
finishAreaSelected(w, v, note) ==
    cleanup([w EXCEPT !.cap.failed = IF note = "success" THEN @
                                     ELSE @ \cup {w.cap.page.owner},
                      !.cap.page.notification = note,
                      !.cap.page.noteType = showNotification(note),
              !.cap.page.noteType = showNotification(note),
                      !.cap.page.pc = "idle",
                      !.cap.page.reply = NoResult,
                      !.cap.page.cropped = NoImage,
                      !.cap.page.trace = <<>>], v)

\* the failure that ends the page's running operation
Blamed(w, cause) == [w EXCEPT !.cap = Blame(@, w.cap.page.owner, cause)]

\* the callbacks the page's selector was started with
pageCallback(w, v) ==
    LET u == [w EXCEPT !.call = NoCall]
    IN  CASE w.call.kind = "complete" -> handleAreaSelected(u, w.call.area)
          [] w.call.kind = "cancel" -> handleAreaCancelled(u, v)
          [] OTHER -> u

\* the captureVisibleTab branch of the background listener
captureVisibleTab(c, frame, ok) ==
    [c EXCEPT !.page.pc = "awaitFrame",
              !.page.reply = IF ok THEN Ok(frame)
                             ELSE Err("captureVisibleTab failed")]

\* the sendMessage callback of captureScreenshot() and what follows it in
\* handleAreaSelected, up to the image load inside cropImage()
captureScreenshot(w, v, delivered) ==
    LET reply == w.cap.page.reply
        area == AreaOf(w.cap.page.currentArea)
    IN  IF ~delivered
        THEN finishAreaSelected(Blamed(w, "transport"), v, "processError")
        ELSE IF reply.kind # "ok"
        THEN finishAreaSelected(Blamed(w, "captureApi"), v, "captureError")
        ELSE IF validateArguments(reply.image, area, v) # "ok"
        THEN finishAreaSelected(Blamed(w, "crop"), v, "processError")
        ELSE [w EXCEPT !.cap.page.pc = "awaitDecode",
                       !.cap.page.trace = Append(@, "cropStart")]

\* a processScreenshot that hands the uncropped frame on when the crop fails
processScreenshot_deliverAnyway(w, v, outcome) ==
    LET r == performCrop(w.cap.page.reply.image,
                         AreaOf(w.cap.page.currentArea))
    IN  IF outcome # "load" \/ r.kind # "ok"
        THEN [w EXCEPT !.cap.page.cropped = w.cap.page.reply.image,
                       !.cap.page.pc = "awaitClipboard",
                       !.cap.page.trace = Append(@, "clipboardWrite")]
        ELSE [w EXCEPT !.cap.page.cropped = r.image,
                       !.cap.page.pc = "awaitClipboard",
                       !.cap.page.trace = @ \o <<"cropEnd", "clipboardWrite">>]

\* processScreenshot() after the image load: crop, then the clipboard write
processScreenshot(w, v, outcome) ==
    LET r == performCrop(w.cap.page.reply.image,
                         AreaOf(w.cap.page.currentArea))
    IN  IF outcome # "load" \/ r.kind # "ok"
        THEN finishAreaSelected(Blamed(w, "crop"), v, "processError")
        ELSE [w EXCEPT !.cap.page.cropped = r.image,
                       !.cap.page.pc = "awaitClipboard",
                       !.cap.page.trace = @ \o <<"cropEnd", "clipboardWrite">>]

\* copyToClipboard() settling, then storeScreenshot() asks for the write
copyToClipboard(w, v, ok) ==
    IF ~ok
    THEN finishAreaSelected(Blamed(w, "clipboard"), v, "processError")
    ELSE [w EXCEPT !.cap.clipboard = w.cap.page.cropped,
                   !.cap.page.pc = "awaitStorage",
                   !.cap.page.trace = Append(@, "storageWrite")]

\* chrome.storage.local.set: a change of latestScreenshot is announced to
\* the onChanged listeners only when the stored value differs
storageSet(c, imageData, area) ==
    [c EXCEPT !.storage = [latestScreenshot |-> imageData, hasArea |-> TRUE,
                           screenshotArea |-> area],
              !.changes = IF c.storage.latestScreenshot # imageData
                          THEN Append(@, [newValue |-> imageData])
                          ELSE @]

\* storeScreenshot(): the write, or its failure; produced remembers the
\* image that the selection of each call ended in
storeScreenshot(w, v, ok) ==
    IF ~ok
    THEN finishAreaSelected(Blamed(w, "storage"), v, "processError")
    ELSE [w EXCEPT !.cap = [storageSet(w.cap, w.cap.page.cropped,
                                       w.cap.page.currentArea)
                               EXCEPT !.page.pc = "awaitStored",
                                      !.produced[w.cap.page.owner] =
                                          w.cap.page.cropped]]

(***************************************************************************)
(* The background worker: its onMessage listener answers captureFullPage   *)
(* and captureVisibleTab requests through sendResponse.                    *)
(***************************************************************************)
Requests == 1..MaxRequests
RequestActions == {"captureFullPage", "captureVisibleTab"}
\* what chrome.tabs.query finds: no tab, a web page, a chrome:// page
TabKinds == {"none", "web", "system"}

\* a response object by the keys it carries
NoReply == [hasImageData |-> FALSE, imageData |-> NoImage,
            hasError |-> FALSE, error |-> "", hasArea |-> FALSE]
ErrorReply(message) ==
    [NoReply EXCEPT !.hasError = TRUE, !.error = message]
ImageReply(dataUrl, withArea) ==
    [NoReply EXCEPT !.hasImageData = TRUE, !.imageData = dataUrl,
                    !.hasArea = withArea]

\* cause remembers why the request was refused
NoRequest == [action |-> "none", stage |-> "none", responses |-> 0,
              reply |-> NoReply, cause |-> "none"]
IdleBg == [n |-> 0, req |-> [r \in Requests |-> NoRequest]]

\* sendResponse(reply): the sender receives the first response of a request
sendResponse(b, r, reply) ==
    [b EXCEPT !.req[r].responses = @ + 1,
              !.req[r].reply = IF b.req[r].responses = 0 THEN reply ELSE @]

\* the listener itself: both branches start a chrome call and return true
bgOnMessage(b, r, action) ==
    [b EXCEPT !.n = r,
              !.req[r].action = action,
              !.req[r].stage = IF action = "captureFullPage"
                               THEN "query" ELSE "capture"]

\* the captureVisibleTab callback of either branch
bgCaptured(b, r, frame, ok) ==
    LET d == [b EXCEPT !.req[r].stage = "done"]
    IN  IF ~ok
        THEN sendResponse([d EXCEPT !.req[r].cause = "captureApi"], r,
                          ErrorReply("captureVisibleTab failed"))
        ELSE sendResponse(d, r,
                 ImageReply(frame, b.req[r].action = "captureVisibleTab"))

\* a tabs.query callback that goes on to capture after refusing a system page
bgTabsQueried_noReturn(b, r, tab) ==
    IF tab = "none"
    THEN sendResponse([b EXCEPT !.req[r].stage = "done",
                                !.req[r].cause = "noTab"], r,
                      ErrorReply("No active tab found"))
    ELSE IF tab = "system"
    THEN [sendResponse(b, r, ErrorReply("Cannot capture system pages (chrome://, extension pages, etc.)"))
             EXCEPT !.req[r].stage = "capture"]
    ELSE [b EXCEPT !.req[r].stage = "capture"]

\* the tabs.query callback of the captureFullPage branch
bgTabsQueried(b, r, tab) ==
    IF tab = "none"
    THEN sendResponse([b EXCEPT !.req[r].stage = "done",
                                !.req[r].cause = "noTab"], r,
                      ErrorReply("No active tab found"))
    ELSE IF tab = "system"
    THEN sendResponse([b EXCEPT !.req[r].stage = "done",
                                !.req[r].cause = "systemPage"], r,
                      ErrorReply("Cannot capture system pages (chrome://, extension pages, etc.)"))
    ELSE [b EXCEPT !.req[r].stage = "capture"]

(***************************************************************************)
(* StorageManager over chrome.storage.local: the stored screenshot pair,   *)
(* the clock of Date.now() in milliseconds, and one getLatestScreenshot()  *)
(* call at a time.                                                         *)
(***************************************************************************)
screenshotExpiryTime == 5 * 60 * 1000
\* how far the clock moves between two steps
ClockSteps == {1, screenshotExpiryTime - 1, screenshotExpiryTime}

NoPair == [hasImage |-> FALSE, latestScreenshot |-> NoImage,
           hasTimestamp |-> FALSE, screenshotTimestamp |-> 0]
Pair(imageData, timestamp) ==
    [hasImage |-> TRUE, latestScreenshot |-> imageData,
     hasTimestamp |-> TRUE, screenshotTimestamp |-> timestamp]
\* what getLatestScreenshot() returned: null, or {imageData, timestamp, ageMs}
NullScreenshot == [isNull |-> TRUE, imageData |-> NoImage,
                   timestamp |-> 0, ageMs |-> 0]
IdleStore == [now |-> 1, ticks |-> 0, local |-> NoPair,
              pc |-> "idle", result |-> NoPair, returned |-> NullScreenshot,
              removeFailed |-> FALSE]

\* StorageManager.saveScreenshot(imageData), the set succeeding or not
saveScreenshot(st, imageData, ok) ==
    IF ok THEN [st EXCEPT !.local = Pair(imageData, st.now)] ELSE st

\* a falsy stored value: key absent (an empty string, a timestamp 0)
Falsy(present, isZero) == ~present \/ isZero

\* a getLatestScreenshot that counts a pair of exactly five minutes as expired
getLatestScreenshot_expireAtLimit(st) ==
    LET result == st.local
        age == st.now - result.screenshotTimestamp
    IN  IF \/ Falsy(result.hasImage, result.latestScreenshot.kind = "missing")
           \/ Falsy(result.hasTimestamp, result.screenshotTimestamp = 0)
        THEN [st EXCEPT !.pc = "returned", !.result = result,
                        !.returned = NullScreenshot]
        ELSE IF age >= screenshotExpiryTime
        THEN [st EXCEPT !.pc = "clearing", !.result = result]
        ELSE [st EXCEPT !.pc = "returned", !.result = result,
                        !.returned = [isNull |-> FALSE,
                                      imageData |-> result.latestScreenshot,
                                      timestamp |-> result.screenshotTimestamp,
                                      ageMs |-> age]]

\* getLatestScreenshot() from the answer of chrome.storage.local.get to its
\* return or to the await of clearScreenshot()
getLatestScreenshot(st) ==
    LET result == st.local
        age == st.now - result.screenshotTimestamp
    IN  IF \/ Falsy(result.hasImage, result.latestScreenshot.kind = "missing")
           \/ Falsy(result.hasTimestamp, result.screenshotTimestamp = 0)
        THEN [st EXCEPT !.pc = "returned", !.result = result,
                        !.returned = NullScreenshot]
        ELSE IF age > screenshotExpiryTime
        THEN [st EXCEPT !.pc = "clearing", !.result = result]
        ELSE [st EXCEPT !.pc = "returned", !.result = result,
                        !.returned = [isNull |-> FALSE,
                                      imageData |-> result.latestScreenshot,
                                      timestamp |-> result.screenshotTimestamp,
                                      ageMs |-> age]]

\* clearScreenshot() awaited by getLatestScreenshot(): the remove succeeds,
\* or it throws and the catch of getLatestScreenshot() returns null
clearScreenshot(st, ok) ==
    [st EXCEPT !.local = IF ok THEN NoPair ELSE @,
               !.removeFailed = ~ok,
               !.pc = "returned", !.returned = NullScreenshot]

(***************************************************************************)
(* UIManager of the popup: the elements it caches from popup.html, the     *)
(* result element and its text, the state flags and the event bus.         *)
(***************************************************************************)
\* the keys cacheElements() fills; popup.html has an element for each
CachedElements ==
    {"captureBtn", "captureFullBtn", "ocrBtn", "apiKeyInput", "modelSelect",
     "resultDiv", "resultText", "loading"}
Messages == {"Screenshot captured", "Capture failed"}
Events == {"areaCapture", "test"}
\* the callbacks a client registers; callback 1 throws when it is called
Callbacks == 1..2
Throwing == {1}
NoData == ""

\* resultClasses is the class list of <div id="result" class="hidden">;
\* timers holds the messages whose auto-hide timer is pending; ran lists
\* the callbacks the last emit() called, with the data each was given;
\* last is the last show call made
IdleUI ==
    [elements |-> CachedElements,
     resultClasses |-> {"hidden"},
     resultText |-> "",
     timers |-> {},
     state |-> [isCapturing |-> FALSE, hasScreenshot |-> FALSE,
                isProcessing |-> FALSE],
     callbacks |-> [e \in Events |-> <<>>],
     emitted |-> [event |-> "none", data |-> NoData],
     ran |-> <<>>,
     last |-> [op |-> "none", message |-> ""]]

\* showResult(text)
showResult(u, text) ==
    LET shown == IF "resultText" \in u.elements /\ "resultDiv" \in u.elements
                 THEN [u EXCEPT !.resultText = text,
                                !.resultClasses = @ \ {"hidden"}]
                 ELSE u
    IN  [shown EXCEPT !.state.isProcessing = FALSE,
                      !.last = [op |-> "showResult", message |-> text]]

\* showInResultDiv(message, type): it looks up this.elements.result
showInResultDiv(u, message, type) ==
    IF "result" \notin u.elements \/ "resultText" \notin u.elements
    THEN u
    ELSE [u EXCEPT !.resultText = message,
                   !.resultClasses = IF type \in {"error", "success"}
                                     THEN {type} ELSE {},
                   !.timers = IF type = "info" THEN @ \cup {message} ELSE @]

\* UIManager.showError(message)
uiShowError(u, message) ==
    [showInResultDiv(u, message, "error")
        EXCEPT !.state.isProcessing = FALSE, !.state.isCapturing = FALSE,
               !.last = [op |-> "showError", message |-> message]]

showSuccess(u, message) ==
    [showInResultDiv(u, message, "success")
        EXCEPT !.state.isCapturing = FALSE,
               !.last = [op |-> "showSuccess", message |-> message]]

showMessage(u, message) ==
    [showInResultDiv(u, message, "info")
        EXCEPT !.last = [op |-> "showMessage", message |-> message]]

setScreenshotAvailable(u, hasScreenshot) ==
    [u EXCEPT !.state.hasScreenshot = hasScreenshot]

\* UIManager.reset()
uiReset(u) ==
    [u EXCEPT !.state = IdleUI.state,
              !.last = [op |-> "reset", message |-> ""],
              !.resultClasses = IF "resultDiv" \in u.elements
                                THEN @ \cup {"hidden"} ELSE @]

\* on(event, callback)
on(u, event, callback) ==
    [u EXCEPT !.callbacks[event] = Append(@, callback)]

\* a forEach without the try: the first exception ends the loop
RECURSIVE forEachCallback_noTry(_, _, _)
forEachCallback_noTry(list, data, called) ==
    IF list = <<>>
    THEN called
    ELSE LET now == Append(called, [callback |-> Head(list), data |-> data,
                                    threw |-> Head(list) \in Throwing])
         IN  IF Head(list) \in Throwing
             THEN now
             ELSE forEachCallback_noTry(Tail(list), data, now)

\* the forEach of emit(): each callback is called inside its own try
RECURSIVE forEachCallback(_, _, _)
forEachCallback(list, data, called) ==
    IF list = <<>>
    THEN called
    ELSE forEachCallback(Tail(list), data,
             Append(called, [callback |-> Head(list), data |-> data,
                             threw |-> Head(list) \in Throwing]))

\* emit(event, data)
emit(u, event, data) ==
    [u EXCEPT !.emitted = [event |-> event, data |-> data],
              !.ran = forEachCallback(u.callbacks[event], data, <<>>)]

(***************************************************************************)
(* ImageCropper.batchCrop(imageDataUrl, areas) of the module class.        *)
(***************************************************************************)
\* the areas argument: not an array, or a list of at most MaxBatch of these
BatchAreas ==
    {NullArea,
     StringArea,
     AreaOf([x |-> 0, y |-> 0, width |-> 1, height |-> 1]),
     AreaOf([x |-> 1, y |-> 0, width |-> 1, height |-> MaxDim]),
     AreaOf([x |-> 1, y |-> 1, width |-> MaxDim, height |-> MaxDim]),
     AreaOf([x |-> -1, y |-> 0, width |-> 1, height |-> 1]),
     [AreaOf([x |-> 0, y |-> 0, width |-> 0, height |-> 1])
         EXCEPT !.width = Absent],
     [AreaOf([x |-> 0, y |-> 0, width |-> 0, height |-> 1])
         EXCEPT !.width = NaN]}
NotArray == [isArray |-> FALSE, list |-> <<>>]
ArrayOf(list) == [isArray |-> TRUE, list |-> list]
BatchArgs ==
    {NotArray} \cup
    {ArrayOf(list) : list \in UNION {[1..n -> BatchAreas] : n \in 0..MaxBatch}}

OkList(images) == [kind |-> "ok", error |-> "", images |-> images]
ErrList(message) == [kind |-> "error", error |-> message, images |-> <<>>]
IdleBatch == [pc |-> "idle", image |-> NoImage, areas |-> NotArray,
              timer |-> FALSE, result |-> [kind |-> "none", error |-> "",
                                           images |-> <<>>]]

\* a loop that leaves out the rectangles it cannot crop
RECURSIVE cropEach_skip(_, _, _)
cropEach_skip(img, areas, results) ==
    IF areas = <<>>
    THEN OkList(results)
    ELSE LET area == Head(areas)
             r == performCrop(img, area)
         IN  IF area.type # "object" \/ ~isValidArea(area, "module")
                \/ r.kind = "error"
             THEN cropEach_skip(img, Tail(areas), results)
             ELSE cropEach_skip(img, Tail(areas), Append(results, r.image))

\* the for loop of batchCrop(): isValidArea() of null or of a string
\* throws a TypeError at `prop in area`
RECURSIVE cropEach(_, _, _)
cropEach(img, areas, results) ==
    IF areas = <<>>
    THEN OkList(results)
    ELSE LET area == Head(areas)
             r == performCrop(img, area)
         IN  IF area.type # "object"
             THEN ErrList("Cannot use 'in' operator")
             ELSE IF ~isValidArea(area, "module")
             THEN ErrList("Invalid area")
             ELSE IF r.kind = "error"
             THEN ErrList(r.error)
             ELSE cropEach(img, Tail(areas), Append(results, r.image))

\* what the catch of batchCrop() rethrows
BatchWrapped(r) ==
    IF r.kind = "error"
    THEN ErrList("Batch crop failed: " \o r.error)
    ELSE r

(***************************************************************************)
(* Full-page capture in the popup: handleFullPageCapture() asks the        *)
(* background worker for the frame, saves it with the StorageManager and   *)
(* copies it to the clipboard.                                             *)
(***************************************************************************)
\* chrome.runtime.lastError.message of a sendMessage nobody answered
LastErrorMessage == "Could not establish connection. Receiving end does not exist."

\* handleFullPageCapture() up to the sendMessage of captureFullPage();
\* r is the request the background receives
handleFullPageCapture(c, r) ==
    [c EXCEPT !.full = [IdleFull EXCEPT !.calls = c.full.calls + 1,
                                        !.pc = "sent", !.request = r,
                                        !.promise = Pending,
                                        !.currentScreenshot =
                                            c.full.currentScreenshot]]

\* the sendMessage callback of captureFullPage(): how the promise settles
captureFullPage(delivered, response) ==
    IF ~delivered
    THEN Rejected(LastErrorMessage)
    ELSE IF response.hasError /\ response.error # ""
    THEN Rejected(response.error)
    ELSE IF response.hasImageData /\ response.imageData.kind # "missing"
    THEN Resolved(response.imageData)
    ELSE Rejected("Invalid response from background script")

\* the catch of handleFullPageCapture(): showError(error.message)
fullPageFailed(c, message, cause) ==
    [c EXCEPT !.full.pc = "done", !.full.cause = cause,
              !.full.promise = IF @.state = "pending"
                               THEN Rejected(message) ELSE @]

\* a handleFullPageCapture() that goes on to save after a rejection
onFullPageResponse_saveAnyway(c, delivered, request) ==
    LET p == captureFullPage(delivered, request.reply)
        cause == IF ~delivered THEN "transport"
                 ELSE IF request.cause # "none" THEN request.cause
                 ELSE "invalidResponse"
    IN  IF p.state = "resolved"
        THEN [c EXCEPT !.full.promise = p, !.full.pc = "awaitSave"]
        ELSE [c EXCEPT !.full.promise = p, !.full.pc = "awaitSave",
                       !.full.cause = cause]

\* handleFullPageCapture() resumed by the captureFullPage() promise: on an
\* image it calls saveScreenshot(imageData)
onFullPageResponse(c, delivered, request) ==
    LET p == captureFullPage(delivered, request.reply)
        cause == IF ~delivered THEN "transport"
                 ELSE IF request.cause # "none" THEN request.cause
                 ELSE "invalidResponse"
    IN  IF p.state = "resolved"
        THEN [c EXCEPT !.full.promise = p, !.full.pc = "awaitSave"]
        ELSE fullPageFailed(c, p.error, cause)

\* chrome.storage.local.set of StorageManager.saveScreenshot(): the pair
\* latestScreenshot, screenshotTimestamp and no other key
storageSetPair(c, imageData) ==
    [c EXCEPT !.storage.latestScreenshot = imageData,
              !.changes = IF c.storage.latestScreenshot # imageData
                          THEN Append(@, [newValue |-> imageData])
                          ELSE @]

\* chrome.storage.local.remove of StorageManager.clearScreenshot(): the
\* same two keys
storageRemovePair(c) ==
    [c EXCEPT !.storage.latestScreenshot = NoImage,
              !.changes = IF c.storage.latestScreenshot # NoImage
                          THEN Append(@, [newValue |-> NoImage])
                          ELSE @]

\* saveScreenshot() settling, then copyImageToClipboard() is called
onFullPageSaved(c, ok) ==
    IF ~ok
    THEN fullPageFailed(c, "Failed to save screenshot", "storage")
    ELSE [storageSetPair(c, c.full.promise.image)
             EXCEPT !.full.pc = "awaitClipboard",
                    !.full.wrote = @ \cup {"storage"}]

\* copyImageToClipboard() settling, then the popup keeps the image
onFullPageCopied(c, ok) ==
    IF ~ok
    THEN fullPageFailed(c, "Failed to copy image to clipboard", "clipboard")
    ELSE [c EXCEPT !.clipboard = c.full.promise.image,
                   !.full.wrote = @ \cup {"clipboard"},
                   !.full.currentScreenshot = c.full.promise.image,
                   !.full.pc = "done"]

\* StorageManager's chrome.storage.onChanged listener dispatching
\* 'screenshotUpdated', and ScreenshotOCRPopup.handleScreenshotUpdate()
\* which receives it: the popup keeps the new value of latestScreenshot
handleScreenshotUpdate(c, imageData) ==
    [c EXCEPT !.full.currentScreenshot = imageData]

\* what handleAreaCapture() of the popup shows once its captureArea()
\* promise has been resolved by the storage listener
onAreaCaptured(u, before, after) ==
    IF \E k \in Captures : /\ before.promise[k].state = "pending"
                            /\ after.promise[k].state = "resolved"
    THEN showSuccess(setScreenshotAvailable(u, TRUE),
                     "Area screenshot captured! You can now extract text using OCR.")
    ELSE u

\* both chrome.storage.onChanged listeners of the popup page on one change
\* of latestScreenshot: the StorageManager's, then the popup's own
onStorageChanged(c, change) ==
    setupStorageListener(handleScreenshotUpdate(c, change.newValue), change)

\* the message handleFullPageCapture() shows in its catch
fullPageError(c) ==
    IF c.full.promise.state = "rejected" THEN c.full.promise.error
    ELSE IF c.full.cause = "storage" THEN "Failed to save screenshot"
    ELSE "Failed to copy image to clipboard"

\* the UIManager calls that end handleFullPageCapture()
fullPageUi(u, c) ==
    IF c.full.pc # "done" THEN u
    ELSE IF c.full.cause = "none"
    THEN showSuccess(setScreenshotAvailable(u, TRUE),
                     "Screenshot captured and copied to clipboard!")
    ELSE uiShowError(u, fullPageError(c))

\* the second selector, never started, on a page that does not scroll
IdleTwin ==
    [ac |-> DefaultAC,
     dom |-> [overlayNodes |-> 0, listeners |-> {}, bodyOverflow |-> "",
              scroll |-> 0, errorDivs |-> 0],
     log |-> [calls |-> 0, session |-> NoCb,
              startResult |-> [k \in Tokens |-> "none"],
              nComplete |-> [k \in Tokens |-> 0],
              nCancel |-> [k \in Tokens |-> 0],
              directStop |-> {},
              before |-> [scroll |-> 0, bodyOverflow |-> "",
                          listeners |-> {}],
              fired |-> <<>>],
     path |-> NoPath]

NoTwin == twin = IdleTwin

OthersIdle ==
    /\ bg = IdleBg
    /\ store = IdleStore
    /\ ui = IdleUI
    /\ batch = IdleBatch
    /\ NoTwin

(***************************************************************************)
(* The client of an AreaCapture object and the observer of its callbacks.  *)
(***************************************************************************)
World == [ac |-> ac, dom |-> dom, log |-> log, path |-> path, cap |-> cap,
          exc |-> "none", call |-> NoCall]

\* what decides how the page scrolls: the scroll position, the overflow
\* style of body and the scroll-blocking listeners on the document
ScrollState(d) ==
    [scroll |-> d.scroll, bodyOverflow |-> d.bodyOverflow,
     listeners |-> d.listeners \cap ScrollListeners]

TornDown(w) ==
    /\ w.ac = DefaultAC
    /\ w.dom.overlayNodes = 0
    /\ w.dom.listeners = {}

\* A client's start(onComplete, onCancel) with two callbacks of its own,
\* numbered by the call; the client catches what start() throws, and
\* before remembers how the page scrolled when the session was opened.
ClientStart(w, v) ==
    LET k == w.log.calls + 1
        r == start([w EXCEPT !.log.calls = k], v, k, k)
    IN  IF r.exc = "none"
        THEN [r EXCEPT !.log.startResult[k] = "ok", !.log.session = k,
                       !.log.before = ScrollState(w.dom)]
        ELSE [r EXCEPT !.log.startResult[k] = r.exc, !.exc = "none"]

\* The callback a method ends with runs in the client: it is counted, with
\* what it can observe of the selector at that moment, and it may open the
\* next session from inside.
RunCallbackSeen(w, v, restart, drawing) ==
    IF w.call.kind = "none"
    THEN w
    ELSE LET k == w.call.token
             again == restart /\ w.log.calls < MaxStarts
             seen == [kind |-> w.call.kind, token |-> k,
                      area |-> w.call.area,
                      from |-> w.path.down, to |-> w.path.cur,
                      wasDrawing |-> drawing,
                      tornDown |-> TornDown(w),
                      restart |-> IF again THEN w.log.calls + 1 ELSE NoCb]
             counted ==
                [w EXCEPT
                    !.call = NoCall,
                    !.log.fired = Append(@, seen),
                    !.log.nComplete[k] =
                        IF w.call.kind = "complete" THEN @ + 1 ELSE @,
                    !.log.nCancel[k] =
                        IF w.call.kind = "cancel" THEN @ + 1 ELSE @]
         IN  IF again THEN ClientStart(counted, v) ELSE counted

RunCallback(w, v, restart) == RunCallbackSeen(w, v, restart, ac.isDrawing)

Commit(w) ==
    /\ w.dom.errorDivs <= MaxErrorDivs
    /\ ac' = w.ac
    /\ dom' = w.dom
    /\ log' = w.log
    /\ path' = w.path

IdleCrop == [pc |-> "idle", image |-> NoImage, area |-> NullArea,
             timer |-> FALSE, imgElement |-> FALSE, result |-> NoResult,
             dims |-> NoDimensions,
             valid |-> [outcome |-> "none", value |-> FALSE]]

\* every step starts with an empty record of the callbacks of the step
Fresh == [World EXCEPT !.log.fired = <<>>]

InitSelector ==
    /\ variant \in Variants
    /\ ac = DefaultAC
    /\ dom \in [overlayNodes : {0}, listeners : {{}},
                bodyOverflow : PageOverflows, scroll : ScrollPositions,
                errorDivs : {0}]
    /\ log = [calls |-> 0, session |-> NoCb,
              startResult |-> [k \in Tokens |-> "none"],
              nComplete |-> [k \in Tokens |-> 0],
              nCancel |-> [k \in Tokens |-> 0],
              directStop |-> {},
              before |-> ScrollState(dom),
              fired |-> <<>>]
    /\ path = NoPath

Start ==
    /\ log.calls < MaxStarts
    /\ Commit(ClientStart(Fresh, variant))
    /\ UNCHANGED <<twin, ui, batch, bg, store, variant, crop, cap>>

Stop ==
    /\ Commit([stop(Fresh, variant) EXCEPT
                !.log.directStop =
                    IF ac.isActive THEN @ \cup {log.session} ELSE @])
    /\ UNCHANGED <<twin, ui, batch, bg, store, variant, crop, cap>>

Cancel ==
    /\ \E restart \in BOOLEAN :
          Commit(RunCallback(cancel(Fresh, variant), variant, restart))
    /\ UNCHANGED <<twin, ui, batch, bg, store, variant, crop, cap>>

MouseDown ==
    /\ \E p \in Points :
          Commit(handleMouseDown(
                    [Fresh EXCEPT !.path = [open |-> TRUE, down |-> p,
                                            cur |-> p]], p))
    /\ UNCHANGED <<twin, ui, batch, bg, store, variant, crop, cap>>

MouseMove ==
    /\ \E p \in Points :
          Commit(handleMouseMove(
                    [Fresh EXCEPT !.path.cur =
                        IF path.open THEN p ELSE @], p))
    /\ UNCHANGED <<twin, ui, batch, bg, store, variant, crop, cap>>

MouseUp ==
    /\ \E restart \in BOOLEAN :
          Commit([RunCallback(handleMouseUp(Fresh, variant), variant, restart)
                    EXCEPT !.path = NoPath])
    /\ UNCHANGED <<twin, ui, batch, bg, store, variant, crop, cap>>

KeyStep(key) ==
    /\ \E restart \in BOOLEAN :
          Commit(RunCallback(handleKeyDown(Fresh, variant, key),
                             variant, restart))
    /\ UNCHANGED <<twin, ui, batch, bg, store, variant, crop, cap>>

KeyDown == \E key \in Keys : KeyStep(key)

\* the 3 s timer of an error box fires
ErrorDivTimeout ==
    /\ dom.errorDivs > 0
    /\ dom' = [dom EXCEPT !.errorDivs = @ - 1]
    /\ log' = [log EXCEPT !.fired = <<>>]
    /\ UNCHANGED <<twin, ui, batch, bg, store, variant, ac, path, crop, cap>>

NextSelector ==
    \/ Start
    \/ Stop
    \/ Cancel
    \/ MouseDown
    \/ MouseMove
    \/ MouseUp
    \/ KeyDown
    \/ ErrorDivTimeout



Init == InitSelector /\ crop = IdleCrop /\ cap = IdleCap /\ OthersIdle
Next == NextSelector
Spec == Init /\ [][Next]_vars

(***************************************************************************)
(* SpecPair: the AreaCapture module and the AreaCapture class of           *)
(* content.js side by side.  The same client makes the same calls on both  *)
(* and both pages get the same events; the module's state is in ac, dom,   *)
(* log and path, the other's in twin.                                      *)
(***************************************************************************)
Twin == [World EXCEPT !.ac = twin.ac, !.dom = twin.dom,
                      !.log = [twin.log EXCEPT !.fired = <<>>],
                      !.path = twin.path]

PairStep(w, t) ==
    /\ Commit(w)
    /\ t.dom.errorDivs <= MaxErrorDivs
    /\ twin' = [ac |-> t.ac, dom |-> t.dom, log |-> t.log, path |-> t.path]
    /\ UNCHANGED <<ui, batch, bg, store, variant, crop, cap>>

\* stop() called by the client
ClientStop(w, v) ==
    [stop(w, v) EXCEPT
        !.log.directStop = IF w.ac.isActive THEN @ \cup {w.log.session}
                           ELSE @]

PairStart ==
    /\ log.calls < MaxStarts
    /\ twin.log.calls < MaxStarts
    /\ PairStep(ClientStart(Fresh, "module"), ClientStart(Twin, "inline"))

PairStop ==
    /\ TRUE
    /\ PairStep(ClientStop(Fresh, "module"), ClientStop(Twin, "inline"))

PairCancel ==
    \E restart \in BOOLEAN :
        /\ TRUE
        /\ PairStep(RunCallback(cancel(Fresh, "module"), "module", restart),
                    RunCallbackSeen(cancel(Twin, "inline"), "inline",
                                    restart, twin.ac.isDrawing))

PairMouseDown ==
    \E p \in Points :
        /\ TRUE
        /\ LET pressed == [open |-> TRUE, down |-> p, cur |-> p]
           IN  PairStep(handleMouseDown([Fresh EXCEPT !.path = pressed], p),
                        handleMouseDown([Twin EXCEPT !.path = pressed], p))

PairMouseMove ==
    \E p \in Points :
        /\ TRUE
        /\ LET moved(w) ==
                   [w EXCEPT !.path.cur = IF w.path.open THEN p ELSE @]
           IN  PairStep(handleMouseMove(moved(Fresh), p),
                        handleMouseMove(moved(Twin), p))

PairMouseUp ==
    \E restart \in BOOLEAN :
        /\ TRUE
        /\ LET m == RunCallback(handleMouseUp(Fresh, "module"), "module",
                                restart)
               t == RunCallbackSeen(handleMouseUp(Twin, "inline"), "inline",
                                    restart, twin.ac.isDrawing)
           IN  PairStep([m EXCEPT !.path = NoPath],
                        [t EXCEPT !.path = NoPath])

PairKeyDown ==
    \E key \in Keys, restart \in BOOLEAN :
        /\ TRUE
        /\ PairStep(RunCallback(handleKeyDown(Fresh, "module", key),
                                "module", restart),
                    RunCallbackSeen(handleKeyDown(Twin, "inline", key),
                                    "inline", restart, twin.ac.isDrawing))

\* the 3 s timers of the error boxes, set in the same step, fire
PairErrorDivTimeout ==
    /\ dom.errorDivs > 0 \/ twin.dom.errorDivs > 0
    /\ dom' = [dom EXCEPT !.errorDivs = IF @ > 0 THEN @ - 1 ELSE @]
    /\ log' = [log EXCEPT !.fired = <<>>]
    /\ twin' = [twin EXCEPT !.dom.errorDivs = IF @ > 0 THEN @ - 1 ELSE @,
                            !.log.fired = <<>>]
    /\ UNCHANGED <<ui, batch, bg, store, variant, ac, path, crop, cap>>

InitPair ==
    /\ InitSelector
    /\ variant = "module"
    /\ twin = [ac |-> ac, dom |-> dom, log |-> log, path |-> path]
    /\ crop = IdleCrop
    /\ cap = IdleCap
    /\ bg = IdleBg
    /\ store = IdleStore
    /\ ui = IdleUI
    /\ batch = IdleBatch

NextPair ==
    \/ PairStart
    \/ PairStop
    \/ PairCancel
    \/ PairMouseDown
    \/ PairMouseMove
    \/ PairMouseUp
    \/ PairKeyDown
    \/ PairErrorDivTimeout

SpecPair == InitPair /\ [][NextPair]_vars

(***************************************************************************)
(* SpecCrop: one cropImage call on each pair of arguments.                 *)
(***************************************************************************)
\* cropImage(imageDataUrl, area) up to its first await
CropCall ==
    /\ crop.pc = "idle"
    /\ \E image \in ImageArgs, area \in AreaArgs :
          LET checked == validateArguments(image, area, variant)
          IN  crop' = IF checked # "ok"
                      THEN [crop EXCEPT !.pc = "done", !.image = image,
                                !.area = area, !.result = Err(checked)]
                      ELSE [crop EXCEPT !.pc = "loading", !.image = image,
                                !.area = area, !.imgElement = TRUE,
                                !.timer = TRUE]
    /\ UNCHANGED <<twin, ui, batch, bg, store, variant, ac, dom, log, path, cap>>

\* img.onload: the timer is cleared, the promise resolves, the crop runs
ImageLoaded ==
    /\ crop.pc = "loading"
    /\ crop.image.kind = "png"
    /\ crop' = [crop EXCEPT !.pc = "done", !.timer = FALSE,
                    !.result = Wrapped(performCrop(crop.image, crop.area))]
    /\ UNCHANGED <<twin, ui, batch, bg, store, variant, ac, dom, log, path, cap>>

\* img.onerror: the module's first handler rejects and leaves the timer;
\* the inline class clears it
ImageError ==
    /\ crop.pc = "loading"
    /\ crop.image.kind = "undecodable"
    /\ crop' = [crop EXCEPT !.pc = "done",
                    !.timer = IF variant = "module" THEN @ ELSE FALSE,
                    !.result = Wrapped(Err("Failed to load image"))]
    /\ UNCHANGED <<twin, ui, batch, bg, store, variant, ac, dom, log, path, cap>>

\* the 10 s timer fires; a promise already settled is not settled again
LoadTimeout ==
    /\ crop.timer
    /\ crop' = IF crop.pc = "loading"
               THEN [crop EXCEPT !.pc = "done", !.timer = FALSE,
                        !.result = Wrapped(Err("Image loading timed out"))]
               ELSE [crop EXCEPT !.timer = FALSE]
    /\ UNCHANGED <<twin, ui, batch, bg, store, variant, ac, dom, log, path, cap>>

\* the client passes the image it got from cropImage to getImageDimensions
DimensionsRead ==
    /\ crop.pc = "done"
    /\ crop.result.kind = "ok"
    /\ crop.dims.kind = "none"
    /\ \E outcome \in {"load", "timeout"} :
           crop' = [crop EXCEPT
                      !.dims = getImageDimensions(crop.result.image, outcome)]
    /\ UNCHANGED <<twin, ui, batch, bg, store, variant, ac, dom, log, path, cap>>

\* the client asks validateCropArea about the arguments of its cropImage
\* call; the ImageCropper of content.js has no such method
AreaValidated ==
    /\ variant = "module"
    /\ crop.pc = "done"
    /\ crop.valid.outcome = "none"
    /\ \E outcome \in {"load", "timeout"} :
           crop' = [crop EXCEPT
                      !.valid = [outcome |-> outcome,
                                 value |-> validateCropArea(crop.image,
                                                            crop.area,
                                                            outcome)]]
    /\ UNCHANGED <<twin, ui, batch, bg, store, variant, ac, dom, log, path, cap>>

SelectorIdle ==
    /\ ac = DefaultAC
    /\ dom = [overlayNodes |-> 0, listeners |-> {}, bodyOverflow |-> "",
              scroll |-> 0, errorDivs |-> 0]
    /\ log = [calls |-> 0, session |-> NoCb,
              startResult |-> [k \in Tokens |-> "none"],
              nComplete |-> [k \in Tokens |-> 0],
              nCancel |-> [k \in Tokens |-> 0],
              directStop |-> {},
              before |-> ScrollState(dom),
              fired |-> <<>>]
    /\ path = NoPath

InitCrop ==
    /\ variant \in Variants
    /\ crop = IdleCrop
    /\ SelectorIdle
    /\ cap = IdleCap
    /\ OthersIdle

NextCrop ==
    \/ CropCall
    \/ ImageLoaded
    \/ ImageError
    \/ LoadTimeout
    \/ DimensionsRead
    \/ AreaValidated

SpecCrop == InitCrop /\ [][NextCrop]_vars

(***************************************************************************)
(* The steps of the capture pipeline: calls of the popup's client, chrome  *)
(* callbacks, messages arriving, the user's pointer and keys on the page.  *)
(***************************************************************************)
CommitCap(w) ==
    /\ w.dom.errorDivs <= MaxErrorDivs
    /\ ac' = w.ac
    /\ dom' = w.dom
    /\ cap' = w.cap
    /\ UNCHANGED <<twin, ui, batch, bg, store, variant, log, path, crop>>

PopupStep(c) ==
    /\ cap' = c
    /\ UNCHANGED <<twin, ui, batch, bg, store, variant, ac, dom, log, path, crop>>

PopupUiStep(c, u) ==
    /\ cap' = c
    /\ ui' = u
    /\ UNCHANGED <<twin, batch, bg, store, variant, ac, dom, log, path, crop>>

CaptureArea ==
    /\ cap.calls < MaxCaptures
    /\ PopupStep(captureArea(cap, cap.calls + 1))

TabsQueried ==
    \E k \in Captures :
        /\ cap.stage[k] = "query"
        /\ \E found \in BOOLEAN : PopupStep(onTabsQueried(cap, k, found))

ScriptInjected ==
    \E k \in Captures :
        /\ cap.stage[k] = "inject"
        /\ \E injected \in BOOLEAN :
               PopupStep(onScriptInjected(cap, k, injected))

StartCaptureMessage ==
    \E k \in Captures :
        /\ cap.stage[k] = "startSent"
        /\ CommitCap(handleMessage(World, variant, k))

StartResponse ==
    \E k \in Captures :
        /\ cap.stage[k] \in {"startOk", "startRefused", "startUnreachable"}
        /\ PopupStep(onStartResponse(cap, k))

CancelCapture ==
    /\ cap.popup.isCapturing \/ cap.popup.currentCallback # NoCapture
    /\ PopupStep(cancelCapture(cap))

StorageChanged ==
    /\ cap.changes # <<>>
    /\ LET c == onStorageChanged([cap EXCEPT !.changes = Tail(@)],
                                 Head(cap.changes))
       IN  PopupUiStep(c, onAreaCaptured(setScreenshotAvailable(ui, TRUE),
                                         cap, c))

PageMouseDown ==
    /\ "mousedown" \in dom.listeners
    /\ \E p \in PagePoints : CommitCap(handleMouseDown(World, p))

PageMouseMove ==
    /\ "mousemove" \in dom.listeners
    /\ ac.isDrawing
    /\ \E p \in PagePoints : CommitCap(handleMouseMove(World, p))

PageMouseUp ==
    /\ "mouseup" \in dom.listeners
    /\ ac.isDrawing
    /\ CommitCap(pageCallback(handleMouseUp(World, variant), variant))

PageKeyDown ==
    /\ "keydown" \in dom.listeners
    /\ \E key \in Keys :
           CommitCap(pageCallback(handleKeyDown(World, variant, key), variant))

BackgroundCapture ==
    /\ cap.page.pc = "awaitCapture"
    /\ \E frame \in Frames, ok \in BOOLEAN :
           PopupStep(captureVisibleTab(cap, frame, ok))

FrameResponse ==
    /\ cap.page.pc = "awaitFrame"
    /\ \E delivered \in BOOLEAN :
           CommitCap(captureScreenshot(World, variant, delivered))

ImageDecoded ==
    /\ cap.page.pc = "awaitDecode"
    /\ \E outcome \in {"load", "error", "timeout"} :
           CommitCap(processScreenshot(World, variant, outcome))

ClipboardWritten ==
    /\ cap.page.pc = "awaitClipboard"
    /\ \E ok \in BOOLEAN : CommitCap(copyToClipboard(World, variant, ok))

StorageWritten ==
    /\ cap.page.pc = "awaitStorage"
    /\ \E ok \in BOOLEAN : CommitCap(storeScreenshot(World, variant, ok))

ScreenshotStored ==
    /\ cap.page.pc = "awaitStored"
    /\ CommitCap(finishAreaSelected(World, variant, "success"))

InitCapture ==
    /\ variant \in Variants
    /\ SelectorIdle
    /\ crop = IdleCrop
    /\ cap = IdleCap
    /\ OthersIdle

NextCapture ==
    \/ CaptureArea
    \/ TabsQueried
    \/ ScriptInjected
    \/ StartCaptureMessage
    \/ StartResponse
    \/ CancelCapture
    \/ StorageChanged
    \/ PageMouseDown
    \/ PageMouseMove
    \/ PageMouseUp
    \/ PageKeyDown
    \/ ErrorDivTimeout
    \/ BackgroundCapture
    \/ FrameResponse
    \/ ImageDecoded
    \/ ClipboardWritten
    \/ StorageWritten
    \/ ScreenshotStored

SpecCapture == InitCapture /\ [][NextCapture]_vars

(***************************************************************************)
(* The steps of the background worker.                                     *)
(***************************************************************************)
BgStep(b) ==
    /\ bg' = b
    /\ UNCHANGED <<twin, ui, batch, variant, ac, dom, log, path, crop, cap, store>>

BgRequest ==
    /\ bg.n < MaxRequests
    /\ \E action \in RequestActions : BgStep(bgOnMessage(bg, bg.n + 1, action))

BgTabsQueried ==
    \E r \in Requests :
        /\ bg.req[r].stage = "query"
        /\ \E tab \in TabKinds : BgStep(bgTabsQueried(bg, r, tab))

BgCaptured ==
    \E r \in Requests :
        /\ bg.req[r].stage = "capture"
        /\ \E frame \in Frames, ok \in BOOLEAN :
               BgStep(bgCaptured(bg, r, frame, ok))

InitBackground ==
    /\ variant \in Variants
    /\ SelectorIdle
    /\ crop = IdleCrop
    /\ cap = IdleCap
    /\ OthersIdle

NextBackground ==
    \/ BgRequest
    \/ BgTabsQueried
    \/ BgCaptured

SpecBackground == InitBackground /\ [][NextBackground]_vars

(***************************************************************************)
(* The steps of the StorageManager: the clock, writers of the pair, and    *)
(* getLatestScreenshot() with its awaits.                                  *)
(***************************************************************************)
StoreStep(st) ==
    /\ store' = st
    /\ UNCHANGED <<twin, ui, batch, variant, ac, dom, log, path, crop, cap, bg>>

ClockTick ==
    /\ store.ticks < MaxTicks
    /\ \E d \in ClockSteps :
           StoreStep([store EXCEPT !.now = @ + d, !.ticks = @ + 1])

SaveScreenshot ==
    /\ \E imageData \in Frames, ok \in BOOLEAN :
           store' = saveScreenshot(store, imageData, ok)
    /\ UNCHANGED <<twin, ui, batch, variant, ac, dom, log, path, crop, cap, bg>>

\* getLatestScreenshot() is called: chrome.storage.local.get is on its way
GetLatestCalled ==
    /\ store.pc \in {"idle", "returned"}
    /\ StoreStep([store EXCEPT !.pc = "reading", !.result = NoPair,
                                !.returned = NullScreenshot,
                                !.removeFailed = FALSE])

GetLatestRead ==
    /\ store.pc = "reading"
    /\ StoreStep(getLatestScreenshot(store))

ScreenshotCleared ==
    /\ store.pc = "clearing"
    /\ \E ok \in BOOLEAN : StoreStep(clearScreenshot(store, ok))

InitStorage ==
    /\ variant \in Variants
    /\ SelectorIdle
    /\ crop = IdleCrop
    /\ cap = IdleCap
    /\ OthersIdle

NextStorage ==
    \/ ClockTick
    \/ SaveScreenshot
    \/ GetLatestCalled
    \/ GetLatestRead
    \/ ScreenshotCleared

SpecStorage == InitStorage /\ [][NextStorage]_vars

\* captureArea() of a popup that also captures full pages
PopupCaptureArea ==
    /\ cap.calls < MaxPopupCaptures
    /\ PopupStep(captureArea(cap, cap.calls + 1))

FullPageCapture ==
    /\ cap.full.calls < MaxFullPage
    /\ cap.full.pc \in {"idle", "done"}
    /\ bg.n < MaxRequests
    /\ cap' = handleFullPageCapture(cap, bg.n + 1)
    /\ bg' = bgOnMessage(bg, bg.n + 1, "captureFullPage")
    /\ UNCHANGED <<twin, ui, batch, store, variant, ac, dom, log, path, crop>>

FullPageResponse ==
    /\ cap.full.pc = "sent"
    /\ \E delivered \in BOOLEAN :
           /\ delivered => bg.req[cap.full.request].responses > 0
           /\ LET c == onFullPageResponse(cap, delivered,
                                          bg.req[cap.full.request])
              IN  PopupUiStep(c, fullPageUi(ui, c))

FullPageSaved ==
    /\ cap.full.pc = "awaitSave"
    /\ \E ok \in BOOLEAN :
           LET c == onFullPageSaved(cap, ok)
           IN  PopupUiStep(c, fullPageUi(ui, c))

FullPageCopied ==
    /\ cap.full.pc = "awaitClipboard"
    /\ \E ok \in BOOLEAN :
           LET c == onFullPageCopied(cap, ok)
           IN  PopupUiStep(c, fullPageUi(ui, c))

\* getLatestScreenshot() of a popup opened in another window finds the
\* stored pair older than screenshotExpiryTime and clears it
ScreenshotExpired ==
    /\ cap.storage.latestScreenshot # NoImage
    /\ PopupStep(storageRemovePair(cap))

InitPopup ==
    /\ variant = "inline"
    /\ SelectorIdle
    /\ crop = IdleCrop
    /\ cap = IdleCap
    /\ OthersIdle

NextPopup ==
    \/ PopupCaptureArea
    \/ TabsQueried
    \/ ScriptInjected
    \/ StartCaptureMessage
    \/ StartResponse
    \/ CancelCapture
    \/ StorageChanged
    \/ PageMouseDown
    \/ PageMouseMove
    \/ PageMouseUp
    \/ PageKeyDown
    \/ ErrorDivTimeout
    \/ BackgroundCapture
    \/ FrameResponse
    \/ ImageDecoded
    \/ ClipboardWritten
    \/ StorageWritten
    \/ ScreenshotStored
    \/ FullPageCapture
    \/ BgTabsQueried
    \/ BgCaptured
    \/ FullPageResponse
    \/ FullPageSaved
    \/ FullPageCopied
    \/ ScreenshotExpired

SpecPopup == InitPopup /\ [][NextPopup]_vars

UiStep(u) ==
    /\ ui' = u
    /\ UNCHANGED <<twin, batch, bg, store, variant, ac, dom, log, path, crop, cap>>

ShowResult ==
    \E text \in Messages : /\ TRUE
                            /\ UiStep(showResult(ui, text))

ShowError ==
    \E message \in Messages : /\ TRUE
                               /\ UiStep(uiShowError(ui, message))

ShowSuccess ==
    \E message \in Messages : /\ TRUE
                               /\ UiStep(showSuccess(ui, message))

ShowMessage ==
    \E message \in Messages : /\ TRUE
                               /\ UiStep(showMessage(ui, message))

SetScreenshotAvailable ==
    \E hasScreenshot \in BOOLEAN :
        /\ TRUE
        /\ UiStep(setScreenshotAvailable(ui, hasScreenshot))

UiReset ==
    /\ TRUE
    /\ UiStep(uiReset(ui))

On ==
    \E event \in Events, callback \in Callbacks :
        /\ Len(ui.callbacks[event]) < MaxRegistrations
        /\ UiStep(on(ui, event, callback))

Emit ==
    \E event \in Events, data \in Messages :
        /\ TRUE
        /\ UiStep(emit(ui, event, data))

InitUI ==
    /\ variant = "inline"
    /\ SelectorIdle
    /\ crop = IdleCrop
    /\ cap = IdleCap
    /\ OthersIdle

NextUI ==
    \/ ShowResult
    \/ ShowError
    \/ ShowSuccess
    \/ ShowMessage
    \/ SetScreenshotAvailable
    \/ UiReset
    \/ On
    \/ Emit

SpecUI == InitUI /\ [][NextUI]_vars

BatchCall ==
    /\ batch.pc = "idle"
    /\ \E image \in ImageArgs, areas \in BatchArgs :
          batch' = IF ~areas.isArray \/ areas.list = <<>>
                   THEN [batch EXCEPT
                           !.pc = "done", !.image = image, !.areas = areas,
                           !.result = ErrList("Areas array is required and must not be empty")]
                   ELSE [batch EXCEPT
                           !.pc = "loading", !.image = image,
                           !.areas = areas, !.timer = TRUE]
    /\ UNCHANGED <<twin, ui, bg, store, variant, ac, dom, log, path, crop, cap>>

\* img.onload: the timer is cleared, the promise resolves, the loop runs
BatchImageLoaded ==
    /\ batch.pc = "loading"
    /\ batch.image.kind = "png"
    /\ batch' = [batch EXCEPT
                   !.pc = "done", !.timer = FALSE,
                   !.result = BatchWrapped(cropEach(batch.image,
                                                    batch.areas.list, <<>>))]
    /\ UNCHANGED <<twin, ui, bg, store, variant, ac, dom, log, path, crop, cap>>

\* img.onerror, also for a missing data URL: the timer is left running
BatchImageError ==
    /\ batch.pc = "loading"
    /\ batch.image.kind # "png"
    /\ batch' = [batch EXCEPT
                   !.pc = "done",
                   !.result = BatchWrapped(ErrList("Failed to load image"))]
    /\ UNCHANGED <<twin, ui, bg, store, variant, ac, dom, log, path, crop, cap>>

BatchLoadTimeout ==
    /\ batch.timer
    /\ batch' = IF batch.pc = "loading"
                THEN [batch EXCEPT
                        !.pc = "done", !.timer = FALSE,
                        !.result =
                            BatchWrapped(ErrList("Image loading timed out"))]
                ELSE [batch EXCEPT !.timer = FALSE]
    /\ UNCHANGED <<twin, ui, bg, store, variant, ac, dom, log, path, crop, cap>>

InitBatch ==
    /\ variant = "module"
    /\ SelectorIdle
    /\ crop = IdleCrop
    /\ cap = IdleCap
    /\ OthersIdle

NextBatch ==
    \/ BatchCall
    \/ BatchImageLoaded
    \/ BatchImageError
    \/ BatchLoadTimeout

SpecBatch == InitBatch /\ [][NextBatch]_vars

(***************************************************************************)
(*                        Properties of ImageCropper                       *)
(***************************************************************************)
\* what the claim counts as an invalid rectangle: a property missing or
\* not of type number, width <= 0, height <= 0, x < 0 or y < 0
LacksNumber(a) == a.t \in {"absent", "string"}
InvalidRect(area) ==
    \/ \E prop \in {area.x, area.y, area.width, area.height} :
            LacksNumber(prop)
    \/ JsLeq(area.width, 0) \/ JsLeq(area.height, 0)
    \/ JsLess(area.x, 0) \/ JsLess(area.y, 0)

\* C10: cropImage called with image data and an area object whose
\* rectangle lacks one of x, y, width, height as a number, or has
\* width <= 0, height <= 0, x < 0 or y < 0, fails with the invalid-area
\* error ('Invalid area dimensions'): the call is over at once, nothing is
\* decoded and no image is produced.
C10_InvalidAreaRejected ==
    crop.pc # "idle" /\ crop.image.kind # "missing"
        /\ crop.area.type = "object" /\ InvalidRect(crop.area) =>
            /\ crop.pc = "done"
            /\ crop.result = Err("Invalid area dimensions")
            /\ ~crop.imgElement /\ ~crop.timer

\* cropImage(png, {x:-1, y:0, width:MaxDim, height:MaxDim}) has failed
C10_Witness ==
    /\ crop.pc = "done"
    /\ crop.image = Png(MaxDim, MaxDim)
    /\ crop.area = [type |-> "object", x |-> Num(-1), y |-> Num(0),
                    width |-> Num(MaxDim), height |-> Num(MaxDim)]
    /\ crop.result.kind = "error"
    /\ crop.result.error = "Invalid area dimensions"

\* the rectangle reaches beyond the right or the bottom edge of the image
ExceedsImage(img, area) ==
    \/ JsSumExceeds(area.x, area.width, img.width)
    \/ JsSumExceeds(area.y, area.height, img.height)

BoundsExceeded ==
    Err("Image cropping failed: Crop area extends beyond image boundaries")

\* C11: a cropImage call whose rectangle reaches beyond the source image
\* never succeeds and never yields an image; when the rectangle passed the
\* area validation and the image has decoded, the call fails with the
\* bounds-exceeded error ('Crop area extends beyond image boundaries').
C11_BeyondImageRejected ==
    /\ [](crop.pc = "done" /\ crop.image.kind = "png"
             /\ ExceedsImage(crop.image, crop.area) =>
                 crop.result.kind = "error" /\ crop.result.image = NoImage)
    /\ [][ImageLoaded /\ ExceedsImage(crop.image, crop.area) =>
              crop'.pc = "done" /\ crop'.result = BoundsExceeded]_vars

\* cropImage(png, {x: img.w-1, y: 0, width: MaxDim, height: MaxDim}) has
\* decoded the image and failed with the bounds-exceeded error
C11_Witness ==
    /\ crop.pc = "done"
    /\ crop.image = Png(MaxDim, MaxDim)
    /\ crop.area = [type |-> "object", x |-> Num(MaxDim - 1), y |-> Num(0),
                    width |-> Num(MaxDim), height |-> Num(MaxDim)]
    /\ crop.result = BoundsExceeded

\* what cropImage(image, area) settles with when the image decodes
CropImageOf(image, area) ==
    IF validateArguments(image, area, "module") # "ok"
    THEN Err(validateArguments(image, area, "module"))
    ELSE Wrapped(performCrop(image, area))

C17_NoTimerAfterSettle ==
    crop.pc = "done" => ~crop.timer

\* C18: when cropImage has succeeded and getImageDimensions has decoded its
\* result in time, it reports the width and the height of the rectangle.
C18_RoundTripDimensions ==
    /\ crop.dims.kind # "none"
    /\ crop.dims.error # "Failed to get image dimensions: Image loading timed out"
    => /\ crop.dims.kind = "ok"
       /\ Num(crop.dims.width) = crop.area.width
       /\ Num(crop.dims.height) = crop.area.height

\* C19: a cropImage call that succeeded returns an image of the size of the
\* rectangle whose pixel (i, j) is the source pixel (rect.x + i,
\* rect.y + j); so the crop to the full extent returns the source itself.
C19_PixelsTranslated ==
    crop.pc = "done" /\ crop.result.kind = "ok" =>
        /\ crop.area.x.t = "num" /\ crop.area.y.t = "num"
        /\ crop.result.image.kind = "png"
        /\ \A i \in 0..(crop.result.image.width - 1),
              j \in 0..(crop.result.image.height - 1) :
               Pixel(crop.result.image, i, j) =
                   Pixel(crop.image, crop.area.x.n + i, crop.area.y.n + j)

\* a cropImage call and a validateCropArea call on the same arguments, in
\* both of which the image load ended before the 10 s timer
BothDecoded ==
    /\ crop.pc = "done"
    /\ crop.valid.outcome = "load"
    /\ crop.result.error # "Image cropping failed: Image loading timed out"

\* C36: for a decodable image and any rectangle, validateCropArea returns
\* true exactly when cropImage on the same arguments succeeds; for an image
\* that cannot be decoded it returns false.
C36_ValidateAgreesWithCrop ==
    BothDecoded
    => IF crop.image.kind = "png"
       THEN crop.valid.value <=> crop.result.kind = "ok"
       ELSE ~crop.valid.value

\* arguments cropImage has to refuse: no image, no area object, or a
\* rectangle that is invalid
BadArguments(c) ==
    \/ c.image.kind = "missing"
    \/ c.area.type # "object"
    \/ InvalidRect(c.area)

ArgumentErrors ==
    {"Image data URL is required", "Area object is required",
     "Invalid area dimensions"}

\* C37: cropImage validates before it decodes: a call with a missing image,
\* a missing area or an invalid area is over at once with the argument
\* error, also when the image data would not decode; an image element and
\* the 10 s timer appear only in a call whose arguments passed.
C37_ValidatedBeforeDecoding ==
    /\ [](crop.pc # "idle" /\ BadArguments(crop)
          => /\ crop.pc = "done"
             /\ ~crop.imgElement /\ ~crop.timer
             /\ crop.result.kind = "error"
             /\ crop.result.error \in ArgumentErrors)
    /\ [][(~crop.imgElement /\ crop'.imgElement)
           \/ (~crop.timer /\ crop'.timer)
          => /\ ~BadArguments(crop')
             /\ crop.pc = "idle" /\ crop'.pc = "loading"]_vars

\* cropImage('data:,', null) has failed with the error about the area
C37_Witness ==
    /\ crop.pc = "done"
    /\ crop.image = BadImage
    /\ crop.area = NullArea
    /\ crop.result = Err("Area object is required")
    /\ ~crop.imgElement /\ ~crop.timer

(***************************************************************************)
(*                        Properties of AreaCapture                        *)
(***************************************************************************)
Started(k) == log.startResult[k] = "ok"
Terminated(k) == Started(k) /\ ~(ac.isActive /\ log.session = k)
Fired == {log.fired[i] : i \in DOMAIN log.fired}
PathRect(from, to) ==
    [x |-> Min(from[1], to[1]), y |-> Min(from[2], to[2]),
     width |-> Abs(to[1] - from[1]), height |-> Abs(to[2] - from[2])]
TooSmall(r) == r.width < MinSelectionSize \/ r.height < MinSelectionSize

\* C1 (as stated): every terminated session, whatever ended it (a valid
\* pointer-up, Escape, cancel() or stop()), has had exactly one of its two
\* callbacks invoked, exactly once.
C1_ExactlyOneCallbackPerSession ==
    \A k \in Tokens :
        Terminated(k) => log.nComplete[k] + log.nCancel[k] = 1

\* C1 (amended): a session ended by a valid pointer-up, by Escape or by
\* cancel() has had exactly one of its callbacks invoked exactly once; a
\* session ended by a direct stop() has had none; a running session none.
C1_OneCallbackUnlessStopped ==
    \A k \in Tokens :
        /\ Terminated(k) /\ k \notin log.directStop
            => log.nComplete[k] + log.nCancel[k] = 1
        /\ Terminated(k) /\ k \in log.directStop
            => log.nComplete[k] = 0 /\ log.nCancel[k] = 0
        /\ Started(k) /\ ~Terminated(k)
            => log.nComplete[k] = 0 /\ log.nCancel[k] = 0

C1_Witness ==
    \E i, j, k \in Tokens :
        /\ Terminated(i) /\ log.nComplete[i] = 1 /\ log.nCancel[i] = 0
        /\ Terminated(j) /\ log.nComplete[j] = 0 /\ log.nCancel[j] = 1
        /\ Terminated(k) /\ k \in log.directStop

\* C2: start() while a session is active fails with the already-active
\* error, leaves the object and the document (callbacks, overlay,
\* listeners) as they were, and the callbacks of the failing call are
\* never invoked.
C2_StartWhileActiveFails ==
    /\ [][Start /\ ac.isActive =>
            /\ log'.startResult[log'.calls] = "AlreadyActive"
            /\ ac' = ac
            /\ dom' = dom
            /\ log'.session = log.session
            /\ log'.fired = <<>>]_vars
    /\ [](\A k \in Tokens :
            log.startResult[k] = "AlreadyActive"
                => log.nComplete[k] = 0 /\ log.nCancel[k] = 0)

C2_Witness ==
    \E k \in Tokens :
        /\ log.startResult[k] = "AlreadyActive"
        /\ ac.isActive
        /\ ac.onCompleteCallback # k
        /\ dom.overlayNodes = 1

\* C3: a pointer-up ending a drag whose rectangle is narrower or lower than
\* 10 px (zero movement included) invokes no callback and leaves the
\* session active and not drawing, with its overlay, listeners and
\* callbacks in place; the next pointer-down starts a drag in that session.
C3_TooSmallKeepsSession ==
    [][MouseUp /\ ac.isActive /\ ac.isDrawing
         /\ TooSmall(PathRect(path.down, path.cur)) =>
            /\ log'.fired = <<>>
            /\ log'.nComplete = log.nComplete
            /\ log'.nCancel = log.nCancel
            /\ log'.session = log.session
            /\ ac'.isActive /\ ~ac'.isDrawing
            /\ ac'.onCompleteCallback = ac.onCompleteCallback
            /\ ac'.onCancelCallback = ac.onCancelCallback
            /\ ac'.overlay /\ dom'.overlayNodes = dom.overlayNodes
            /\ dom'.listeners = dom.listeners
            /\ SessionListeners \subseteq dom'.listeners
            /\ \A p \in Points :
                  LET w == handleMouseDown([World EXCEPT !.ac = ac'], p)
                  IN  /\ w.ac.isActive /\ w.ac.isDrawing
                      /\ w.ac.onCompleteCallback = ac.onCompleteCallback]_vars

\* a zero-movement drag at (50,100) was rejected and the session goes on
C3_Witness ==
    /\ ac.isActive /\ ~ac.isDrawing
    /\ log.fired = <<>>
    /\ dom.errorDivs = 1
    /\ ac.selectionBox.display = "none"
    /\ ac.selectionBox.left = 50 /\ ac.selectionBox.top = 100
    /\ ac.selectionBox.width = 0 /\ ac.selectionBox.height = 0

\* C4: the rectangle passed to onComplete is x = min(startX, endX),
\* y = min(startY, endY), width = |endX - startX|, height = |endY - startY|
\* of the pointer-down position and the last cursor position of the drag.
C4_ReportedRectangle ==
    \A e \in Fired :
        e.kind = "complete" =>
            /\ e.area.x = Min(e.from[1], e.to[1])
            /\ e.area.y = Min(e.from[2], e.to[2])
            /\ e.area.width = Abs(e.to[1] - e.from[1])
            /\ e.area.height = Abs(e.to[2] - e.from[2])

\* the drag (200,300) -> (50,100), against the reading direction, reports
\* {x:50, y:100, width:150, height:200}, like (50,100) -> (200,300)
C4_Witness ==
    \E e \in Fired :
        /\ e.kind = "complete"
        /\ e.from = <<200, 300>> /\ e.to = <<50, 100>>
        /\ e.area = [x |-> 50, y |-> 100, width |-> 150, height |-> 200]

\* C7: Escape while a session is active, drawing or not, invokes onCancel
\* exactly once and not onComplete, then and later, and tears down as a
\* completion does.
C7_EscapeCancelsOnce ==
    /\ [][KeyStep("Escape") /\ ac.isActive =>
            LET k == log.session IN
            /\ log'.nCancel[k] = log.nCancel[k] + 1
            /\ log'.nComplete = log.nComplete
            /\ Len(log'.fired) = 1
            /\ log'.fired[1].kind = "cancel"
            /\ log'.fired[1].token = ac.onCancelCallback
            /\ log'.fired[1].tornDown
            /\ LET afterCancel == cancel(World, variant)
                   afterComplete == completeSelection(World, variant, NoArea)
               IN  /\ afterCancel.ac = afterComplete.ac
                   /\ afterCancel.dom = afterComplete.dom]_vars
    /\ [](\A k \in Tokens :
            log.nCancel[k] > 0 => log.nCancel[k] = 1 /\ log.nComplete[k] = 0)

\* Escape arrived in the middle of a drag
C7_Witness ==
    \E e \in Fired :
        e.kind = "cancel" /\ e.wasDrawing /\ log.nCancel[e.token] = 1

\* C8: a callback is invoked only when the session is torn down (not
\* active, overlay removed, listeners detached), and a start() made from
\* inside the callback succeeds and opens a session with the new callbacks.
C8_CallbackAfterTeardown ==
    \A e \in Fired :
        /\ e.tornDown
        /\ e.restart # NoCb =>
            /\ log.startResult[e.restart] = "ok"
            /\ log.session = e.restart
            /\ ac.isActive /\ ~ac.isDrawing
            /\ ac.onCompleteCallback = e.restart
            /\ ac.onCancelCallback = e.restart
            /\ ac.overlay /\ dom.overlayNodes = 1
            /\ SessionListeners \subseteq dom.listeners

C8_Witness ==
    \E e \in Fired :
        /\ e.kind = "complete" /\ e.restart # NoCb /\ e.restart # e.token
        /\ ac.isActive /\ ac.onCompleteCallback = e.restart

\* C9: after a session has ended by completion or cancellation (and as long
\* as no session is active) no overlay node is in the document, no listener
\* of the session (pointer, key, scroll blocking) is registered, and every
\* field has its default.
C9_TeardownRestoresDefaults ==
    ((\E e \in Fired : e.restart = NoCb) \/ ~ac.isActive) =>
        /\ dom.overlayNodes = 0
        /\ dom.listeners \cap (SessionListeners \cup ScrollListeners) = {}
        /\ ~ac.isActive /\ ~ac.isDrawing
        /\ ac.startX = 0 /\ ac.startY = 0 /\ ac.endX = 0 /\ ac.endY = 0
        /\ ac.onCompleteCallback = NoCb /\ ac.onCancelCallback = NoCb
        /\ ~ac.overlay /\ ~ac.selectionBox.present
        /\ ~ac.preventScroll /\ ~ac.originalScrollPosition.saved
        /\ ac = DefaultAC

C9_Witness ==
    \E e \in Fired :
        /\ e.restart = NoCb /\ e.kind = "complete"
        /\ e.area.width >= MinSelectionSize
        /\ variant = "inline"

\* C24: while a session is open the scroll position is the one start()
\* found, and once the session is over the scroll position, the overflow
\* style of body and the scroll listeners of the document are again what
\* they were before start().
C24_ScrollBehaviourRestored ==
    /\ ac.isActive => dom.scroll = log.before.scroll
    /\ ~ac.isActive => ScrollState(dom) = log.before

\* C20: stop() called while no session is active changes no field, no DOM
\* node, no listener and invokes no callback; and a second stop() right
\* after a stop() changes nothing more.
C20_StopIdempotent ==
    /\ [][Stop /\ ~ac.isActive =>
              /\ ac' = ac /\ dom' = dom /\ path' = path
              /\ log'.fired = <<>>
              /\ log'.nComplete = log.nComplete
              /\ log'.nCancel = log.nCancel]_vars
    /\ [](stop(stop(World, variant), variant) = stop(World, variant))
    /\ [](~ac.isActive => stop(World, variant) = World)

\* a session has been ended by stop(), and stop() is now a no-op
C20_Witness ==
    /\ log.directStop # {}
    /\ ~ac.isActive
    /\ stop(World, variant) = World

\* C33: for an AreaCapture instance, isDrawing implies isActive; isActive
\* holds exactly when the overlay node exists and the callbacks of the
\* current session are stored; and when not active the overlay, the
\* selectionBox and both callbacks are null.
C33_SelectorStateConsistent ==
    LET stored == /\ ac.onCompleteCallback = log.session
                  /\ ac.onCancelCallback = log.session
                  /\ log.session # NoCb
    IN  /\ ac.isDrawing => ac.isActive
        /\ ac.isActive <=> (ac.overlay /\ dom.overlayNodes = 1 /\ stored)
        /\ ~ac.isActive => /\ ~ac.overlay /\ dom.overlayNodes = 0
                           /\ ~ac.selectionBox.present
                           /\ ac.onCompleteCallback = NoCb
                           /\ ac.onCancelCallback = NoCb

\* a second session is being drawn, after the first one was ended
C33_Witness ==
    /\ ac.isActive /\ ac.isDrawing
    /\ log.session = 2
    /\ ac.onCompleteCallback = 2
    /\ dom.overlayNodes = 1

\* the selector, the document and the callback counts are as they were and
\* the step has called nothing
NothingHappened ==
    /\ ac' = ac
    /\ dom' = dom
    /\ log'.nComplete = log.nComplete
    /\ log'.nCancel = log.nCancel
    /\ log'.calls = log.calls
    /\ log'.fired = <<>>

\* C38: input events that do not apply leave the selector unchanged:
\* pointer-move and pointer-up while not drawing, every key other than
\* Escape, and every pointer or key event while not active change no field
\* and no part of the document and invoke no callback.
C38_InapplicableEventsIgnored ==
    [][\/ (MouseMove \/ MouseUp) /\ ~ac.isDrawing
       \/ \E key \in Keys \ {"Escape"} : KeyStep(key)
       \/ (MouseDown \/ MouseMove \/ MouseUp \/ KeyDown) /\ ~ac.isActive
       => NothingHappened]_vars

\* no session was ever started, and the pointer went down and moved
C38_Witness ==
    /\ log.calls = 0
    /\ ac = DefaultAC
    /\ path.open
    /\ path.cur # path.down

\* what a client sees of the callbacks of a step: which one, of which
\* session, with which rectangle
Invoked(fired) ==
    [i \in 1..Len(fired) |->
        [kind |-> fired[i].kind, token |-> fired[i].token,
         area |-> fired[i].area]]

Quiescent ==
    /\ \A k \in Captures : cap.stage[k] \in {"none", "done"}
    /\ cap.changes = <<>>
    /\ cap.page.pc = "idle"

\* C5: a captureArea() call made while the promise of an earlier call is
\* still pending is rejected with 'Already capturing', whatever the order
\* of the tab-query, injection and startCapture answers of the two calls.
C5_SecondCallRejected ==
    \A k \in cap.overlapped :
        cap.promise[k] = Rejected("Already capturing")

\* C6: once the user has given up the selection of call k with Escape and
\* nothing is on its way any more, the promise of call k is rejected with
\* the cancellation error.
C6_CancelSettlesPromise ==
    \A k \in cap.cancelled :
        Quiescent => cap.promise[k] = Rejected("Capture cancelled")

OperationOrder ==
    <<"frameRequest", "cropStart", "cropEnd", "clipboardWrite", "storageWrite">>
IsPrefix(t, full) ==
    Len(t) <= Len(full) /\ \A i \in 1..Len(t) : t[i] = full[i]
InTrace(event) == \E i \in DOMAIN cap.page.trace : cap.page.trace[i] = event
Delivers ==
    \/ cap'.clipboard # cap.clipboard
    \/ cap'.storage # cap.storage
    \/ Len(cap'.changes) > Len(cap.changes)

\* C12: within one area-capture operation of the page the frame is
\* requested before cropping starts, and cropping has finished before the
\* clipboard write and then the storage write start; the clipboard and the
\* storage change only in an operation whose crop has finished, and an
\* operation that ends while waiting for the frame or the crop has
\* delivered nothing.
C12_FrameCropDeliveryOrder ==
    /\ [] IsPrefix(cap.page.trace, OperationOrder)
    /\ [][Delivers => InTrace("cropEnd")]_vars
    /\ [][cap.page.pc \in {"awaitFrame", "awaitDecode"}
              /\ cap'.page.pc = "idle" =>
                  /\ ~InTrace("clipboardWrite") /\ ~InTrace("storageWrite")
                  /\ ~Delivers]_vars

\* an operation has gone through frame, crop, clipboard and storage
C12_Witness ==
    /\ cap.page.pc = "awaitStored"
    /\ cap.page.trace = OperationOrder
    /\ cap.clipboard = cap.page.cropped
    /\ cap.storage.latestScreenshot = cap.page.cropped
    /\ cap.page.cropped.kind = "png"

\* the controller is at rest: not capturing, no area kept
PageAtRest(c) ==
    ~c.page.isCapturing /\ ~c.page.hasArea /\ c.page.currentArea = NoArea
\* a step in which an operation of the page ends with a failure
OperationFails ==
    /\ cap.page.pc # "idle"
    /\ cap'.page.pc = "idle"
    /\ cap'.page.notification \in {"captureError", "processError"}
\* a step in which the user gives the selection up
SelectionCancelled ==
    ac.isActive /\ ~ac'.isActive /\ cap'.page.pc = "idle"

\* C13: every failure of an area capture in the page (error response or
\* transport error of the frame request, crop, clipboard or storage
\* failure) and every cancel by the user leaves the controller with
\* isCapturing = false and currentArea = null and the selector stopped, and
\* a controller in that state accepts the next startCapture request.
C13_FailureReturnsPageToIdle ==
    /\ [][OperationFails \/ SelectionCancelled =>
              PageAtRest(cap') /\ ~ac'.isActive]_vars
    /\ [](cap.page.loaded /\ PageAtRest(cap) =>
             \A k \in Captures :
                 handleMessage(World, variant, k).cap.stage[k] = "startOk")

\* after an operation of the page has failed, the startCapture request of
\* the second captureArea() call has been accepted
C13_Witness ==
    /\ cap.page.notification \in {"captureError", "processError"}
    /\ cap.page.owner = 2
    /\ cap.stage[2] = "startOk"
    /\ cap.page.isCapturing

\* C14: once the operation that the page ran for call k has failed (frame,
\* crop, clipboard or storage failure after the selection) and nothing is
\* on its way any more, the promise of call k is rejected.
C14_PageFailureRejectsPromise ==
    \A k \in cap.failed :
        Quiescent => cap.promise[k].state = "rejected"

\* C21: however often content.js is injected and whatever startCapture
\* messages arrive, the page has at most one controller with its message
\* listener and at most one overlay node, which is there exactly while the
\* selector is active; a startCapture arriving while a capture is in
\* progress is answered {success: false} and leaves selector and DOM alone.
C21_OneSessionOneOverlay ==
    /\ [](/\ cap.page.controllers <= 1
          /\ cap.page.loaded <=> cap.page.controllers = 1
          /\ dom.overlayNodes <= 1
          /\ ac.isActive <=> dom.overlayNodes = 1)
    /\ [][\A k \in Captures :
              /\ cap.stage[k] = "startSent" /\ cap'.stage[k] # "startSent"
              /\ cap.page.isCapturing
              => /\ cap'.stage[k] = "startRefused"
                 /\ ac' = ac /\ dom' = dom
                 /\ cap'.page = cap.page]_vars

\* content.js was injected for both calls; the second startCapture arrived
\* during the selection of the first and was refused
C21_Witness ==
    /\ cap.page.controllers = 1
    /\ cap.page.owner = 1
    /\ cap.stage[1] \in {"startOk", "done"}
    /\ cap.stage[2] = "startRefused"
    /\ ac.isActive /\ dom.overlayNodes = 1

\* the failure causes a caller is meant to tell apart
CaptureFailureCauses ==
    {"noTab", "systemPage", "captureApi", "transport", "invalidResponse",
     "crop"}

\* the captures that one of these causes has ended and whose callbacks in
\* the popup have all run, each with the promise its caller holds
FailedCaptures ==
    {[cause |-> cap.cause[k], promise |-> cap.promise[k]] :
         k \in {j \in Captures : /\ cap.cause[j] \in CaptureFailureCauses
                                 /\ cap.stage[j] = "done"}}
    \cup (IF cap.full.cause \in CaptureFailureCauses
          THEN {[cause |-> cap.full.cause, promise |-> cap.full.promise]}
          ELSE {})

\* C22: a capture ended by one of the failure causes has rejected its
\* caller's promise, and two captures ended by different causes have
\* rejected with different error values.
C22_FailureCausesDistinct ==
    \A a \in FailedCaptures :
        /\ a.promise.state = "rejected"
        /\ \A b \in FailedCaptures :
               a.cause # b.cause /\ b.promise.state = "rejected"
               => a.promise.error # b.promise.error

\* the image is the window of the captured frame that the rectangle names
CroppedTo(img, area) ==
    /\ img.kind = "png" /\ img.drawn
    /\ img.ox = area.x /\ img.oy = area.y
    /\ img.width = area.width /\ img.height = area.height

\* C23: whenever the store holds a screenshotArea it also holds a
\* latestScreenshot, and that image is the frame cropped to the rectangle.
C23_AreaOnlyWithItsCrop ==
    cap.storage.hasArea
    => CroppedTo(cap.storage.latestScreenshot, cap.storage.screenshotArea)

\* the answer of the background worker to the popup's captureFullPage
Provided == bg.req[cap.full.request].reply

\* C26: a full-page capture that the background refused, that failed in
\* captureVisibleTab or whose message got no answer is over and has written
\* neither the store nor the clipboard; the step that handles the answer
\* writes neither; and what a full-page capture writes to the store and to
\* the clipboard is the imageData of the background's answer, unchanged.
C26_FullPageDeliversDirectly ==
    /\ [](cap.full.cause \in {"noTab", "systemPage", "captureApi",
                                "transport", "invalidResponse"}
             => cap.full.pc = "done" /\ cap.full.wrote = {})
    /\ [][FullPageResponse
              => /\ cap'.storage = cap.storage
                 /\ cap'.clipboard = cap.clipboard]_vars
    /\ [][FullPageSaved /\ "storage" \in cap'.full.wrote
              => /\ Provided.hasImageData
                 /\ cap'.storage.latestScreenshot = Provided.imageData]_vars
    /\ [][FullPageCopied /\ "clipboard" \in cap'.full.wrote
              => /\ Provided.hasImageData
                 /\ cap'.clipboard = Provided.imageData]_vars

\* a full-page capture has ended with the 320 x 400 frame of the background
\* in the store and on the clipboard
C26_Witness ==
    /\ cap.full.pc = "done"
    /\ cap.full.wrote = {"storage", "clipboard"}
    /\ Provided.imageData = Png(320, 400)
    /\ cap.storage.latestScreenshot = Png(320, 400)
    /\ cap.clipboard = Png(320, 400)

\* C29: a captureArea() promise that is resolved holds the image that the
\* page cropped and stored for the selection of that call.
C29_ResolvedWithOwnSelection ==
    \A k \in Captures :
        cap.promise[k].state = "resolved"
        => /\ cap.promise[k].image # NoImage
           /\ cap.promise[k].image = cap.produced[k]

\* C30: while the promise that currentCallback belongs to is pending, no
\* step replaces or clears currentCallback; a step that takes the handle
\* away settles that promise.
C30_CallbackHandleKept ==
    [][LET k == cap.popup.currentCallback
       IN  k # NoCapture /\ cap.promise[k].state = "pending"
           => \/ cap'.popup.currentCallback = k
              \/ cap'.promise[k].state # "pending"]_vars

\* C31: in the popup, whenever ui.state.hasScreenshot is true the popup's
\* currentScreenshot holds an image, also after a storage change that
\* removed latestScreenshot.
C31_HasScreenshotHasImage ==
    ui.state.hasScreenshot => cap.full.currentScreenshot # NoImage

\* C32: in the content script the selector is active only while the
\* controller's isCapturing is set; isCapturing stays set while the frame
\* request, crop and delivery of the capture are running and is cleared
\* only by a step that leaves no session and no processing behind; a
\* startCapture handled while a capture is being processed opens no session.
C32_CapturingCoversCapture ==
    /\ [](ac.isActive => cap.page.isCapturing)
    /\ [](cap.page.pc # "idle" => cap.page.isCapturing)
    /\ [][cap.page.isCapturing /\ ~cap'.page.isCapturing
          => ~ac'.isActive /\ cap'.page.pc = "idle"]_vars
    /\ [][cap.page.pc # "idle" /\ cap'.page.pc # "idle"
          => ~ac'.isActive /\ cap'.page.owner = cap.page.owner]_vars

\* the second startCapture was refused while the capture of the first was
\* being cropped
C32_Witness ==
    /\ cap.page.pc = "awaitDecode"
    /\ cap.page.isCapturing /\ ~ac.isActive
    /\ cap.page.owner = 1
    /\ cap.stage[2] = "startRefused"

\* C34: the frame request of an area capture is sent only after the
\* selection overlay has left the document: in the step that sends it and
\* until the background has taken the frame, there is no overlay node and
\* the selector is not active.
C34_FrameRequestedWithoutOverlay ==
    /\ [](cap.page.pc \in {"awaitCapture", "awaitFrame"}
          => /\ dom.overlayNodes = 0
             /\ ~ac.overlay /\ ~ac.isActive)
    /\ [][cap.page.pc = "idle" /\ cap'.page.pc = "awaitCapture"
          => /\ dom.overlayNodes = 1
             /\ dom'.overlayNodes = 0
             /\ cap'.page.trace = <<"frameRequest">>]_vars

\* the frame of a selection was taken by the background
C34_Witness ==
    /\ cap.page.pc = "awaitFrame"
    /\ cap.page.trace = <<"frameRequest">>
    /\ cap.page.hasArea
    /\ cap.page.reply.kind = "ok"
    /\ dom.overlayNodes = 0

\* C35: in an area capture the page writes the cropped image to storage
\* only after the clipboard holds that image; a failed clipboard write
\* leaves the stored screenshot and its area as they were, announces no
\* change, and the notification that ends the capture is not a success
\* notification.
C35_StoredOnlyAfterClipboard ==
    /\ [][cap.page.pc = "awaitStorage"
          /\ cap'.storage # cap.storage
          => /\ cap.clipboard = cap.page.cropped
             /\ cap'.storage.latestScreenshot = cap.page.cropped]_vars
    /\ [][cap.page.pc = "awaitClipboard" /\ cap'.page.pc = "idle"
          => /\ cap'.storage = cap.storage
             /\ cap'.changes = cap.changes
             /\ cap'.page.noteType # "success"]_vars

(***************************************************************************)
(*                         Properties of UIManager                         *)
(***************************************************************************)
\* C25: when the last show call was showError(m) or showSuccess(m), the
\* result element of the popup is not hidden and its text is m.
C25_StatusMessageShown ==
    ui.last.op \in {"showError", "showSuccess"}
    => /\ "hidden" \notin ui.resultClasses
       /\ ui.resultText = ui.last.message

\* C28: emit(event, data) calls the callbacks registered for the event, and
\* no others, once per registration and in the order of registration, each
\* with data, whether or not an earlier one threw; it registers and
\* unregisters nothing, and with no registration it calls nothing.
C28_EmitDeliversInOrder ==
    [][Emit =>
          LET registered == ui.callbacks[ui'.emitted.event]
          IN  /\ Len(ui'.ran) = Len(registered)
              /\ \A i \in 1..Len(registered) :
                     /\ ui'.ran[i].callback = registered[i]
                     /\ ui'.ran[i].data = ui'.emitted.data
              /\ ui'.callbacks = ui.callbacks
              /\ ui' = [ui EXCEPT !.emitted = ui'.emitted,
                                  !.ran = ui'.ran]]_vars

\* 'test' has the throwing callback 1 registered before callback 2, and
\* the last emit('test', data) called both in that order
C28_Witness ==
    /\ ui.callbacks["test"] = <<1, 2>>
    /\ ui.emitted.event = "test"
    /\ Len(ui.ran) = 2
    /\ ui.ran[1].callback = 1 /\ ui.ran[1].threw
    /\ ui.ran[2].callback = 2 /\ ~ui.ran[2].threw

(***************************************************************************)
(*                  Properties of the background worker                    *)
(***************************************************************************)
\* C15: a captureFullPage or captureVisibleTab request never gets a second
\* response; once its chrome callbacks have run (no active tab, system
\* page, capture error, success) it has got exactly one, and that response
\* carries imageData or error, never both and never neither.
C15_ExactlyOneResponse ==
    \A r \in Requests :
        LET q == bg.req[r]
        IN  /\ q.responses <= 1
            /\ q.stage = "done" => q.responses = 1
            /\ q.responses = 1 =>
                   /\ q.stage = "done"
                   /\ q.reply.hasImageData # q.reply.hasError
                   /\ q.reply.hasImageData => q.reply.imageData.kind = "png"

\* a system-page refusal, a success and a capture error have been answered
C15_Witness ==
    /\ bg.req[1].action = "captureFullPage"
    /\ bg.req[1].reply =
           ErrorReply("Cannot capture system pages (chrome://, extension pages, etc.)")
    /\ bg.req[2].action = "captureFullPage"
    /\ bg.req[2].reply.hasImageData
    /\ bg.req[3].action = "captureVisibleTab"
    /\ bg.req[3].reply = ErrorReply("captureVisibleTab failed")

(***************************************************************************)
(*                     Properties of the StorageManager                    *)
(***************************************************************************)
CompletePair(pair) ==
    /\ pair.hasImage /\ pair.latestScreenshot.kind = "png"
    /\ pair.hasTimestamp /\ pair.screenshotTimestamp # 0
AgeOf(pair) == store.now - pair.screenshotTimestamp

\* C16: a getLatestScreenshot() that reads a complete pair older than five
\* minutes goes on to clear it, returns null and, unless the remove itself
\* fails, leaves both keys absent; one that reads a complete pair of at
\* most five minutes returns its image, timestamp and age and writes
\* nothing.
C16_ExpiredPairCleared ==
    /\ [][GetLatestRead /\ CompletePair(store.local)
              /\ AgeOf(store.local) > screenshotExpiryTime =>
                  store'.pc = "clearing" /\ store'.returned.isNull]_vars
    /\ [][ScreenshotCleared =>
              /\ store'.pc = "returned" /\ store'.returned = NullScreenshot
              /\ store'.removeFailed \/ store'.local = NoPair]_vars
    /\ [][GetLatestRead /\ CompletePair(store.local)
              /\ AgeOf(store.local) <= screenshotExpiryTime =>
                  /\ store'.pc = "returned"
                  /\ store'.returned =
                         [isNull |-> FALSE,
                          imageData |-> store.local.latestScreenshot,
                          timestamp |-> store.local.screenshotTimestamp,
                          ageMs |-> AgeOf(store.local)]
                  /\ store'.local = store.local]_vars

\* a read of a pair older than five minutes has returned null and the pair
\* is gone
C16_Witness ==
    /\ store.pc = "returned"
    /\ CompletePair(store.result)
    /\ AgeOf(store.result) > screenshotExpiryTime
    /\ store.returned.isNull
    /\ ~store.removeFailed
    /\ store.local = NoPair

=============================================================================
